---- MODULE Spec2Model ----
(***************************************************************************)
(* Model of trip-video-queue: the message-ingestion pipeline               *)
(* (handlers/message.handlers.ts with services/mongodb.service.ts and      *)
(* services/rabbitMQ.service.ts) and the connection-resilience manager     *)
(* (services/whatsapp.service.ts with handlers/whatsapp.handlers.ts).      *)
(*                                                                         *)
(* Two specifications share the module: SpecPipeline drives the pipeline   *)
(* and leaves the manager's variables alone; SpecConn drives the manager.  *)
(***************************************************************************)
EXTENDS Integers, Sequences, FiniteSets, TLC

\* ------------------------------------------------------------------------
\* Bounds of the model
\* ------------------------------------------------------------------------
MaxDeliveries == 2
MaxTicks == 2
MaxSockets == 3
MaxBackoffSteps == 12
MaxPublishCalls == 4
MaxConnections == 3
MaxMongoCalls == 3
MaxClients == 3
MaxSaves == 3
MaxWords == 2
MaxPunct == 2
MaxTokens == 2

\* ------------------------------------------------------------------------
\* Program constants (message.handlers.ts)
\* ------------------------------------------------------------------------
CACHE_DURATION == 5 * 60 * 1000
CLEANUP_INTERVAL == 60 * 1000
TARGET_GROUP_ID == "G@g.us"
OTHER_GROUP_ID == "X@g.us"

\* steps of the clock: a third of the cleanup period, or that much more than a
\* whole retention window
TickMs == CLEANUP_INTERVAL \div 3
TickSteps == {TickMs, CACHE_DURATION + TickMs}

Null == [null |-> TRUE]
Never == -1

\* ------------------------------------------------------------------------
\* Inbound messages.  A text is a sequence of whitespace-separated tokens; a
\* token that is an http(s) link carries its trailing punctuation apart.
\* ------------------------------------------------------------------------
\* platform: the link matches one of the platform patterns, which stop at the
\* first character outside their class; punct: the punctuation characters
\* that follow the link before the next whitespace
Word(s) == [url |-> FALSE, platform |-> FALSE, body |-> s, punct |-> <<>>]
Link(s, platform, p) == [url |-> TRUE, platform |-> platform, body |-> s, punct |-> p]

Msg(jid, id, kind, text, name) ==
    [jid |-> jid, id |-> id, kind |-> kind, text |-> text, pushName |-> name]

\* a link the platform patterns match, followed by "!"
M1 == Msg(TARGET_GROUP_ID, "m1", "text",
          <<Word("check"), Link("https://youtu.be/abc123", TRUE, <<"!">>)>>, "Alice")
\* a link only the generic pattern matches, followed by "!!"; no pushName
M2 == Msg(TARGET_GROUP_ID, "m2", "text",
          <<Link("https://example.org/v", FALSE, <<"!", "!">>)>>, "")
\* the status command
S1 == Msg(TARGET_GROUP_ID, "s1", "text", <<Word("Status")>>, "Alice")
\* a video message
V1 == Msg(TARGET_GROUP_ID, "v1", "video", <<>>, "Bob")
\* a message without content
E1 == Msg(TARGET_GROUP_ID, "e1", "none", <<>>, "Bob")
\* a link from another group, with the id of M1
X1 == Msg(OTHER_GROUP_ID, "m1", "text",
          <<Link("https://youtu.be/other", TRUE, <<".">>)>>, "Eve")

Messages == {M1, M2, S1, V1, E1, X1}

\* the batches a messages.upsert event may carry: every single message, a
\* message twice, and the status command followed by a link
Batches == { <<m>> : m \in Messages } \cup { <<M1, M1>>, <<S1, M1>> }

\* `${remoteJid}_${msg.key.id}`
MessageKey(m) == <<m.jid, m.id>>
Keys == { MessageKey(m) : m \in Messages }
MsgIds == { m.id : m \in Messages }

Handlers == {1, 2}

VARIABLES
    now,                \* Date.now()
    ticks,              \* number of clock steps taken
    nextCleanup,        \* due time of the next setInterval callback
    processedMessages,  \* Map<string, number>: key -> first sighting, Never if absent
    store,              \* collection video_suggestions: set of documents
    nextOid,            \* next ObjectId the store hands out
    published,          \* per source message: payloads sent to the queue
    reactions,          \* per source message: reactions sent on it
    replies,            \* per source message: text replies sent on it
    deliveries,         \* number of messages.upsert events so far
    batch, idx, pc,     \* per handler invocation: messages, position, await point
    savedDoc,           \* per handler invocation: result of saveVideoSuggestion
    pubFailed,          \* per handler invocation: publishVideoSuggestion threw
    seen,               \* per key: history of the dedup decisions
    trail,              \* per handler invocation: the message it took up last
                        \* and the awaited calls made for it, in order
    calls               \* how the invocations ended, and the messages they
                        \* never reached

pipeVars == <<now, ticks, nextCleanup, processedMessages, store, nextOid,
              published, reactions, replies, deliveries,
              batch, idx, pc, savedDoc, pubFailed, seen, trail, calls>>

VARIABLES
    reconnectAttempts,          \* let reconnectAttempts = 0
    isConnecting,               \* let isConnecting = false
    reconnectTimer,             \* handle of the last timer set, 0 for null
    pendingTimers,              \* reconnection timers set and neither fired nor cleared
    lastSuccessfulConnection,   \* date of the last open (its ordinal), 0 for null
    connectionStats,            \* counters and lastError
    restartTimers,              \* pending 3 s timers of the 405 branch
    clearing,                   \* 405 handlers waiting for clearAuthState
    inflight,                   \* connectToWhatsApp calls that have not returned, by caller
    connecting, open,           \* live sockets before and after their open event
    created, opens,             \* sockets made, open events seen
    started,                    \* main() has run
    authState,                  \* the files under authStatePath: "present" or "cleared"
    lastEv                      \* the event handled last, and how many pending
                                \* reconnection timers its handler cleared

connVars == <<reconnectAttempts, isConnecting, reconnectTimer, pendingTimers,
              lastSuccessfulConnection, connectionStats, restartTimers, clearing,
              inflight, connecting, open, created, opens, started, authState,
              lastEv>>

\* Inputs and results of the pure functions, for the specifications that apply
\* one function to inputs drawn in the initial state
VARIABLES
    arg,    \* the input the function is applied to next, Null when none
    res     \* the results so far, oldest first

funVars == <<arg, res>>

\* rabbitMQ.service.ts: the module's state, the connections amqp.connect has
\* returned, and the calls of publishVideoSuggestion
VARIABLES
    cachedConnection,   \* let cachedConnection = null: 0, or the connection held
    rabbitConnecting,   \* let isConnecting = false
    connectionRetries,  \* let connectionRetries = 0
    connState,          \* per connection: "none", "alive", "errored", "closed"
    qpc,                \* per caller: where its publishVideoSuggestion stands
    qAttempts,          \* per caller: createConnection calls its last call made
    qHandle,            \* per caller: the connection its last call sent on, 0 if none
    qResult,            \* per caller: "none", "sent" or "failed"
    qCalls              \* publishVideoSuggestion calls so far

queueVars == <<cachedConnection, rabbitConnecting, connectionRetries, connState,
               qpc, qAttempts, qHandle, qResult, qCalls>>

\* mongodb.service.ts: the module's state, the MongoClient objects made, and
\* the calls of connectMongo
VARIABLES
    mongoClient,        \* let client = null: 0, or the MongoClient held
    mongoDb,            \* let db = null: 0, or the client whose Db is held
    mongoConnecting,    \* let isConnecting = false
    clientState,        \* per MongoClient: "none", "open", "closed"
    pinged,             \* the MongoClients on which a ping has succeeded
    mpc,                \* per caller: where its connectMongo stands
    mAwait,             \* per caller: the client whose promise it awaits
    mAttempt,           \* per caller: attempt of the loop
    mRet,               \* per caller: how its last call ended
    mDials,             \* per caller: MongoClients its last call made
    mIndexed,           \* a createIndex on messageId has succeeded
    mCalls              \* connectMongo calls so far

mongoVars == <<mongoClient, mongoDb, mongoConnecting, clientState, pinged,
               mpc, mAwait, mAttempt, mRet, mDials, mIndexed, mCalls>>

\* index.ts: the main process and its SIGINT handler
VARIABLES
    mainState,          \* main(): "connecting", then "done"
    sigintHandler,      \* process.on('SIGINT', ...) has run
    procState           \* "running" or "exited"

procVars == <<mainState, sigintHandler, procState>>

InitProc ==
    /\ mainState = "connecting"
    /\ sigintHandler = FALSE
    /\ procState = "running"

clientVars == <<queueVars, mongoVars, procVars>>

vars == <<pipeVars, connVars, funVars, clientVars>>

\* ------------------------------------------------------------------------
\* message.handlers.ts: pure helpers
\* ------------------------------------------------------------------------
\* variant: every group is allowed
isAllowedGroup_AnyGroup(remoteJid) == TRUE

isAllowedGroup(remoteJid) == remoteJid = TARGET_GROUP_ID

\* variant: nothing is ever a duplicate
isDuplicateMessage_NeverDuplicate(cache, key) == FALSE

\* isDuplicateMessage: processedMessages.has(messageId)
isDuplicateMessage(cache, key) == cache[key] # Never

\* isDuplicateMessage: processedMessages.set(messageId, Date.now())
RecordMessage(cache, key, t) == [cache EXCEPT ![key] = t]

\* variant: the cleanup removes every entry older than the instant it runs
CleanupAt_NoGrace(cache, t) ==
    [k \in Keys |-> IF cache[k] # Never /\ t - cache[k] > 0 THEN Never ELSE cache[k]]

\* the callback of setInterval, run at time t
CleanupAt(cache, t) ==
    [k \in Keys |->
        IF cache[k] # Never /\ t - cache[k] > CACHE_DURATION THEN Never ELSE cache[k]]

\* text.toLowerCase().trim() on a one-token text
ToLower(s) == CASE s = "Status" -> "status"
                [] s = "STATUS" -> "status"
                [] OTHER -> s

\* variant: no text is the status command
IsStatusCommand_Never(text) == FALSE

IsStatusCommand(text) ==
    /\ Len(text) = 1
    /\ ~text[1].url
    /\ ToLower(text[1].body) \in {"status", "/status"}

\* extractVideoUrl: the patterns are tried in order, the platform patterns
\* before the generic one; the match loses one trailing punctuation character
RECURSIVE FirstLink(_, _, _)
FirstLink(text, i, platformOnly) ==
    IF i > Len(text) THEN 0
    ELSE IF text[i].url /\ (platformOnly => text[i].platform) THEN i
    ELSE FirstLink(text, i + 1, platformOnly)

StripOne(p) == IF Len(p) > 0 THEN SubSeq(p, 1, Len(p) - 1) ELSE p

extractVideoUrl(text) ==
    LET i == FirstLink(text, 1, TRUE)
        j == FirstLink(text, 1, FALSE)
    IN  IF i # 0 THEN [body |-> text[i].body, tail |-> <<>>]
        ELSE IF j # 0 THEN [body |-> text[j].body, tail |-> StripOne(text[j].punct)]
        ELSE Null

\* ------------------------------------------------------------------------
\* mongodb.service.ts: the collection with its unique index on messageId
\* ------------------------------------------------------------------------
\* a Date value; the model keeps no more of it than that it is set
SomeDate == "date"

NewDoc(data, oid) ==
    [_id |-> oid, url |-> data.url, texto |-> data.texto,
     sugeridoPor |-> data.sugeridoPor, messageId |-> data.messageId,
     chatId |-> data.chatId, timestamp |-> data.timestamp, status |-> data.status,
     publishedToQueue |-> FALSE, iaProcess |-> FALSE, createdAt |-> SomeDate,
     publishedAt |-> Null]

DocsOf(coll, messageId) == { d \in coll : d.messageId = messageId }

\* variant: a collection without the unique index
DuplicateKey_NoIndex(coll, doc) == FALSE

\* createIndex({messageId: 1}, {unique: true}): insertOne fails with code 11000
DuplicateKey(coll, doc) == DocsOf(coll, doc.messageId) # {}

\* findOne({messageId})
FindOne(coll, messageId) ==
    IF DocsOf(coll, messageId) = {} THEN Null
    ELSE CHOOSE d \in DocsOf(coll, messageId) :
            \A e \in DocsOf(coll, messageId) : d._id <= e._id

\* variant: with the store unreachable the document is returned unwritten
saveVideoSuggestion_Unwritten(coll, data, oid, up, findUp) ==
    LET doc == NewDoc(data, oid)
    IN  IF ~up \/ ~DuplicateKey(coll, doc)
        THEN [coll |-> IF up THEN coll \cup {doc} ELSE coll, doc |-> doc]
        ELSE IF findUp /\ FindOne(coll, data.messageId) # Null
             THEN [coll |-> coll, doc |-> FindOne(coll, data.messageId)]
        ELSE [coll |-> coll, doc |-> Null]

\* saveVideoSuggestion(data) with the store reachable (up) or not, and the
\* lookup after a duplicate-key error succeeding (findUp) or not:
\* the documents afterwards and the document returned, Null when it throws
saveVideoSuggestion(coll, data, oid, up, findUp) ==
    LET doc == NewDoc(data, oid)
    IN  IF ~up THEN [coll |-> coll, doc |-> Null]
        ELSE IF ~DuplicateKey(coll, doc)
             THEN [coll |-> coll \cup {doc}, doc |-> doc]
        ELSE IF findUp /\ FindOne(coll, data.messageId) # Null
             THEN [coll |-> coll, doc |-> FindOne(coll, data.messageId)]
        ELSE [coll |-> coll, doc |-> Null]

\* variant: the update also sets status
markAsPublished_SetStatus(coll, messageId) ==
    { IF d.messageId = messageId
      THEN [d EXCEPT !.publishedToQueue = TRUE, !.publishedAt = SomeDate,
                     !.status = "completed"]
      ELSE d : d \in coll }

\* variant: the update sets nothing
markAsPublished_NoFlag(coll, messageId) == coll

\* markAsPublished(messageId): updateOne({messageId}, {$set: ...})
markAsPublished(coll, messageId) ==
    LET d == FindOne(coll, messageId)
    IN  IF d = Null THEN coll
        ELSE (coll \ {d}) \cup
             {[d EXCEPT !.publishedToQueue = TRUE, !.publishedAt = SomeDate]}

\* ------------------------------------------------------------------------
\* handleMessagesUpsert: the synchronous run of the for loop from message i
\* up to the first await or the end of the batch
\* ------------------------------------------------------------------------
\* history of the dedup decisions on a key: how many deliveries passed, when
\* the last one passed, and the last decision with the age (time since the
\* last pass) it was taken at
NoSeen == [passes |-> 0, lastPass |-> Never, verdict |-> "none"]

Verdict(age, dup) ==
    CASE age = Never /\ ~dup -> "first"
      [] age = Never /\ dup -> "skipped-unseen"
      [] age # Never /\ age < CACHE_DURATION /\ dup -> "skipped-young"
      [] age # Never /\ age = CACHE_DURATION /\ dup -> "skipped-at-limit"
      [] age # Never /\ age > CACHE_DURATION /\ dup -> "skipped-expired"
      [] age # Never /\ age < CACHE_DURATION /\ ~dup -> "passed-young"
      [] age # Never /\ age = CACHE_DURATION /\ ~dup -> "passed-at-limit"
      [] age # Never /\ age > CACHE_DURATION /\ ~dup -> "passed-expired"

\* one dedup decision on key k at time t
Examine(sn, k, t, dup) ==
    [sn EXCEPT ![k] =
        [passes |-> IF dup THEN @.passes ELSE @.passes + 1,
         lastPass |-> IF dup THEN @.lastPass ELSE t,
         verdict |-> Verdict(IF @.lastPass = Never THEN Never ELSE t - @.lastPass, dup)]]

RECURSIVE Scan(_, _, _, _, _)
Scan(cache, sn, b, i, t) ==
    IF i > Len(b) THEN [cache |-> cache, seen |-> sn, idx |-> i, pc |-> "idle"]
    ELSE LET msg == b[i]
             key == MessageKey(msg)
         IN  IF msg.kind = "none" THEN Scan(cache, sn, b, i + 1, t)
             ELSE IF isDuplicateMessage(cache, key)
                  THEN Scan(cache, Examine(sn, key, t, TRUE), b, i + 1, t)
             ELSE LET cache2 == RecordMessage(cache, key, t)
                      sn2 == Examine(sn, key, t, FALSE)
                  IN  IF ~isAllowedGroup(msg.jid) THEN Scan(cache2, sn2, b, i + 1, t)
                      ELSE IF msg.kind # "text" THEN Scan(cache2, sn2, b, i + 1, t)
                      ELSE IF IsStatusCommand(msg.text)
                           THEN [cache |-> cache2, seen |-> sn2, idx |-> i, pc |-> "status"]
                      ELSE IF extractVideoUrl(msg.text) = Null
                           THEN Scan(cache2, sn2, b, i + 1, t)
                      ELSE [cache |-> cache2, seen |-> sn2, idx |-> i, pc |-> "save"]

\* the videoData object built for message msg
VideoData(msg) ==
    [url |-> extractVideoUrl(msg.text), texto |-> msg.text,
     sugeridoPor |-> IF msg.pushName = "" THEN "Desconhecido" ELSE msg.pushName,
     messageId |-> msg.id, chatId |-> msg.jid, timestamp |-> SomeDate,
     status |-> "pending"]

\* the payload handed to publishVideoSuggestion
Payload(doc) == [url |-> doc.url, texto |-> doc.texto, sugeridoPor |-> doc.sugeridoPor]

Cur(h) == batch[h][idx[h]]
CurKey(h) == MessageKey(Cur(h))

\* the awaited calls made for one message: none yet, and one more
NoKey == <<>>
NoTrail == [key |-> NoKey, steps |-> <<>>]
Did(h, step, ok) ==
    [trail[h] EXCEPT !.steps = Append(@, [step |-> step, ok |-> ok])]

\* variant: the outer catch rethrows
OuterCatch_Rethrow(c) == [c EXCEPT !.rejected = @ + 1]

\* the outer catch of handleMessagesUpsert logs the error: the promise resolves
OuterCatch(c) == [c EXCEPT !.resolved = @ + 1]

\* where the invocation stands after a synchronous run r of the loop over
\* batch b, tr being the calls made for the message it leaves; its locals go
\* when it returns
Resume(h, b, r, tr) ==
    /\ processedMessages' = r.cache
    /\ seen' = r.seen
    /\ pc' = [pc EXCEPT ![h] = r.pc]
    /\ idx' = [idx EXCEPT ![h] = IF r.pc = "idle" THEN 1 ELSE r.idx]
    /\ batch' = [batch EXCEPT ![h] = IF r.pc = "idle" THEN <<>> ELSE b]
    /\ trail' = [trail EXCEPT ![h] =
                    IF r.pc = "idle" THEN tr
                    ELSE [key |-> MessageKey(b[r.idx]), steps |-> <<>>]]
    /\ calls' = IF r.pc = "idle" THEN [calls EXCEPT !.resolved = @ + 1] ELSE calls

\* continue, after the call step returned (ok) or threw: on to the next
\* message of the batch; savedDoc is a local of the loop body
Continue(h, step, ok) ==
    /\ Resume(h, batch[h], Scan(processedMessages, seen, batch[h], idx[h] + 1, now),
              Did(h, step, ok))
    /\ savedDoc' = [savedDoc EXCEPT ![h] = Null]
    /\ pubFailed' = [pubFailed EXCEPT ![h] = FALSE]

\* on to the next await of the same message, after the call step returned
\* (ok) or threw
Goto(h, label, step, ok) ==
    /\ pc' = [pc EXCEPT ![h] = label]
    /\ trail' = [trail EXCEPT ![h] = Did(h, step, ok)]
    /\ UNCHANGED <<processedMessages, seen, idx, batch, calls>>

\* variant: the catch of PASSO 1 sends no reaction
AfterSave_NoReaction(doc) == IF doc = Null THEN "notifyMongo" ELSE "publish"

\* after PASSO 1: catch (mongoError) when saveVideoSuggestion threw
AfterSave(doc) == IF doc = Null THEN "reactFail" ELSE "publish"

\* variant: a failure reaction whose send threw is sent again
AfterReaction_Retry(sendOk) == IF sendOk THEN "notifyMongo" ELSE "reactFail"

\* after the failure reaction: its catch (reactError) logs, and
\* sendErrorNotification follows
AfterReaction(sendOk) == "notifyMongo"

\* variant: a failed update sends the message back to PASSO 2
AfterMark_Republish(up) == IF up THEN "reactOk" ELSE "publish"

\* after PASSO 3: its catch logs and falls through to PASSO 4
AfterMark(up) == "reactOk"

\* ------------------------------------------------------------------------
\* The environment: clock, cleanup timer, inbound batches
\* ------------------------------------------------------------------------
\* setInterval(() => {...}, CLEANUP_INTERVAL): the callbacks that fall due
\* while the clock moves from its present value to t, run in order, each at
\* its due time
RECURSIVE RunCleanups(_, _, _)
RunCleanups(cache, due, t) ==
    IF due > t THEN [cache |-> cache, due |-> due]
    ELSE RunCleanups(CleanupAt(cache, due), due + CLEANUP_INTERVAL, t)

\* time passes; the cleanup timer fires on time
Tick(d) ==
    /\ ticks < MaxTicks
    /\ now' = now + d
    /\ ticks' = ticks + 1
    /\ LET r == RunCleanups(processedMessages, nextCleanup, now + d)
       IN  /\ processedMessages' = r.cache
           /\ nextCleanup' = r.due
    /\ UNCHANGED <<store, nextOid, published, reactions, replies, deliveries,
                   batch, idx, pc, savedDoc, pubFailed, seen, trail, calls,
                   connVars, funVars, clientVars>>

\* sock.ev.on('messages.upsert', ...): handleMessagesUpsert starts on batch b
\* and runs to its first await
Deliver(h, b) ==
    /\ pc[h] = "idle"
    /\ \A g \in Handlers : g < h => pc[g] # "idle"
    /\ deliveries < MaxDeliveries
    /\ deliveries' = deliveries + 1
    /\ Resume(h, b, Scan(processedMessages, seen, b, 1, now), NoTrail)
    /\ UNCHANGED <<now, ticks, nextCleanup, store, nextOid, published, reactions,
                   replies, savedDoc, pubFailed,
                   connVars, funVars, clientVars>>

\* ------------------------------------------------------------------------
\* handleMessagesUpsert: one action per await
\* ------------------------------------------------------------------------
\* the status command: getSystemStatus() and sock.sendMessage(text)
StatusReply(h, sendOk) ==
    /\ pc[h] = "status"
    /\ IF sendOk
       THEN /\ replies' = [replies EXCEPT ![CurKey(h)] = @ + 1]
            /\ Continue(h, "status", TRUE)
       ELSE /\ UNCHANGED <<replies, savedDoc, pubFailed>>
            /\ Goto(h, "statusErr", "status", FALSE)
    /\ UNCHANGED <<now, ticks, nextCleanup, store, nextOid, published, reactions,
                   deliveries, connVars, funVars, clientVars>>

\* the catch of the status command: sock.sendMessage outside any inner try;
\* when it throws, the outer catch ends the whole invocation
StatusErrorReply(h, sendOk) ==
    /\ pc[h] = "statusErr"
    /\ IF sendOk
       THEN /\ replies' = [replies EXCEPT ![CurKey(h)] = @ + 1]
            /\ Continue(h, "statusErr", TRUE)
       ELSE /\ pc' = [pc EXCEPT ![h] = "idle"]
            /\ idx' = [idx EXCEPT ![h] = 1]
            /\ batch' = [batch EXCEPT ![h] = <<>>]
            /\ trail' = [trail EXCEPT ![h] = Did(h, "statusErr", FALSE)]
            /\ calls' = [OuterCatch(calls) EXCEPT
                            !.abandoned = @ + Len(batch[h]) - idx[h]]
            /\ UNCHANGED <<replies, processedMessages, seen, savedDoc, pubFailed>>
    /\ UNCHANGED <<now, ticks, nextCleanup, store, nextOid, published, reactions,
                   deliveries, connVars, funVars, clientVars>>

\* PASSO 1: await saveVideoSuggestion(videoData)
Save(h, up, findUp) ==
    /\ pc[h] = "save"
    /\ LET r == saveVideoSuggestion(store, VideoData(Cur(h)), nextOid, up, findUp)
       IN  /\ store' = r.coll
           /\ nextOid' = IF r.coll # store THEN nextOid + 1 ELSE nextOid
           /\ savedDoc' = [savedDoc EXCEPT ![h] = r.doc]
           /\ Goto(h, AfterSave(r.doc), "save", r.doc # Null)
    /\ UNCHANGED <<now, ticks, nextCleanup, published, reactions, replies,
                   deliveries, pubFailed, connVars, funVars, clientVars>>

\* catch (mongoError): react with the failure emoji, errors swallowed
ReactFailure(h, sendOk) ==
    /\ pc[h] = "reactFail"
    /\ reactions' = IF sendOk
                     THEN [reactions EXCEPT ![CurKey(h)].fail = @ + 1]
                     ELSE reactions
    /\ Goto(h, AfterReaction(sendOk), "reactFail", sendOk)
    /\ UNCHANGED <<now, ticks, nextCleanup, store, nextOid, published, replies,
                   deliveries, savedDoc, pubFailed, connVars, funVars, clientVars>>

\* catch (mongoError): sendErrorNotification, then continue
NotifyMongo(h, sendOk) ==
    /\ pc[h] = "notifyMongo"
    /\ sendOk \in BOOLEAN
    /\ Continue(h, "notifyMongo", TRUE)
    /\ UNCHANGED <<now, ticks, nextCleanup, store, nextOid, published, reactions,
                   replies, deliveries, connVars, funVars, clientVars>>

\* PASSO 2: await publishVideoSuggestion({url, texto, sugeridoPor})
Publish(h, up) ==
    /\ pc[h] = "publish"
    /\ published' = IF up
                     THEN [published EXCEPT ![CurKey(h)] = Append(@, Payload(savedDoc[h]))]
                     ELSE published
    /\ pubFailed' = [pubFailed EXCEPT ![h] = ~up]
    /\ Goto(h, IF up THEN "mark" ELSE "notifyRabbit", "publish", up)
    /\ UNCHANGED <<now, ticks, nextCleanup, store, nextOid, reactions, replies,
                   deliveries, savedDoc, connVars, funVars, clientVars>>

\* catch (rabbitError): sendErrorNotification, then fall through to PASSO 3
NotifyRabbit(h, sendOk) ==
    /\ pc[h] = "notifyRabbit"
    /\ sendOk \in BOOLEAN
    /\ Goto(h, "mark", "notifyRabbit", TRUE)
    /\ UNCHANGED <<now, ticks, nextCleanup, store, nextOid, published, reactions,
                   replies, deliveries, savedDoc, pubFailed, connVars, funVars, clientVars>>

\* PASSO 3: await markAsPublished(savedDoc.messageId), errors logged only
MarkPublished(h, up) ==
    /\ pc[h] = "mark"
    /\ store' = IF up THEN markAsPublished(store, savedDoc[h].messageId)
                 ELSE store
    /\ Goto(h, AfterMark(up), "mark", up)
    /\ UNCHANGED <<now, ticks, nextCleanup, nextOid, published, reactions, replies,
                   deliveries, savedDoc, pubFailed, connVars, funVars, clientVars>>

\* PASSO 4: react with the success emoji, errors swallowed
ReactSuccess(h, sendOk) ==
    /\ pc[h] = "reactOk"
    /\ reactions' = IF sendOk
                     THEN [reactions EXCEPT ![CurKey(h)].ok = @ + 1]
                     ELSE reactions
    /\ Continue(h, "reactOk", sendOk)
    /\ UNCHANGED <<now, ticks, nextCleanup, store, nextOid, published, replies,
                   deliveries, connVars, funVars, clientVars>>

\* ------------------------------------------------------------------------
\* rabbitMQ.service.ts: the lazily connected queue client
\* ------------------------------------------------------------------------
\* RABBITMQ_CONFIG.maxRetries, read from the environment (default 5)
RabbitMaxRetries == 2

\* concurrent callers of publishVideoSuggestion
Publishers == 1..3
Connections == 1..MaxConnections

\* variant: an error or close event leaves the cached handle in place
OnConnectionEvent_Keep(cached) == cached

\* connection.on('error' | 'close'), channel.on('error' | 'close')
OnConnectionEvent(cached) == 0

\* publishVideoSuggestion with the connection getLazyConnection returned:
\* channel.sendToQueue, which returns false when the channel is blocked
SendToQueue(c, conn, accepted) ==
    /\ qpc' = [qpc EXCEPT ![c] = "idle"]
    /\ qHandle' = [qHandle EXCEPT ![c] = conn]
    /\ qResult' = [qResult EXCEPT ![c] = IF accepted THEN "sent" ELSE "failed"]

\* isConnecting = true; await createConnection(): attempt n + 1 of the call
Dial(c, n) ==
    /\ rabbitConnecting' = TRUE
    /\ qpc' = [qpc EXCEPT ![c] = "creating"]
    /\ qAttempts' = [qAttempts EXCEPT ![c] = n + 1]
    /\ qHandle' = [qHandle EXCEPT ![c] = 0]
    /\ qResult' = [qResult EXCEPT ![c] = "none"]

\* variant: a caller that finds no cached connection dials at once
getLazyConnection_NoWait(c, n, accepted) ==
    IF cachedConnection # 0
    THEN /\ SendToQueue(c, cachedConnection, accepted)
         /\ qAttempts' = [qAttempts EXCEPT ![c] = n]
         /\ UNCHANGED rabbitConnecting
    ELSE Dial(c, n)

\* getLazyConnection from its first line to its first await, in a call that
\* has made n attempts
getLazyConnection(c, n, accepted) ==
    IF cachedConnection # 0
    THEN /\ SendToQueue(c, cachedConnection, accepted)
         /\ qAttempts' = [qAttempts EXCEPT ![c] = n]
         /\ UNCHANGED rabbitConnecting
    ELSE IF rabbitConnecting
    THEN /\ qpc' = [qpc EXCEPT ![c] = "waiting"]
         /\ qAttempts' = [qAttempts EXCEPT ![c] = n]
         /\ qHandle' = [qHandle EXCEPT ![c] = 0]
         /\ qResult' = [qResult EXCEPT ![c] = "none"]
         /\ UNCHANGED rabbitConnecting
    ELSE Dial(c, n)

\* publishVideoSuggestion(payload) is called
PublishCall(c, accepted) ==
    /\ qpc[c] = "idle"
    /\ qCalls < MaxPublishCalls
    /\ qCalls' = qCalls + 1
    /\ getLazyConnection(c, 0, accepted)
    /\ UNCHANGED <<cachedConnection, connectionRetries, connState,
                   pipeVars, connVars, funVars,
                   mongoVars, procVars>>

\* while (isConnecting) await sleep(100): the loop ends, and the cached
\* connection is returned if there is one
Poll(c, accepted) ==
    /\ qpc[c] = "waiting"
    /\ ~rabbitConnecting
    /\ IF cachedConnection # 0
       THEN /\ SendToQueue(c, cachedConnection, accepted)
            /\ UNCHANGED <<qAttempts, rabbitConnecting>>
       ELSE Dial(c, qAttempts[c])
    /\ UNCHANGED <<cachedConnection, connectionRetries, connState, qCalls,
                   pipeVars, connVars, funVars,
                   mongoVars, procVars>>

\* createConnection() returns: the listeners are on, the handle is cached
CreateOk(c, accepted) ==
    /\ qpc[c] = "creating"
    /\ \E n \in Connections :
          /\ connState[n] = "none"
          /\ \A m \in Connections : m < n => connState[m] # "none"
          /\ connState' = [connState EXCEPT ![n] = "alive"]
          /\ cachedConnection' = n
          /\ SendToQueue(c, n, accepted)
    /\ connectionRetries' = 0
    /\ rabbitConnecting' = FALSE
    /\ UNCHANGED <<qAttempts, qCalls, pipeVars, connVars, funVars,
                   mongoVars, procVars>>

\* createConnection() throws: the catch of getLazyConnection
CreateFail(c) ==
    /\ qpc[c] = "creating"
    /\ rabbitConnecting' = FALSE
    /\ IF connectionRetries + 1 >= RabbitMaxRetries
       THEN /\ connectionRetries' = 0
            /\ qpc' = [qpc EXCEPT ![c] = "idle"]
            /\ qResult' = [qResult EXCEPT ![c] = "failed"]
       ELSE /\ connectionRetries' = connectionRetries + 1
            /\ qpc' = [qpc EXCEPT ![c] = "sleeping"]
            /\ UNCHANGED qResult
    /\ UNCHANGED <<cachedConnection, connState, qAttempts, qHandle, qCalls,
                   pipeVars, connVars, funVars,
                   mongoVars, procVars>>

\* reconnectDelay has passed: return getLazyConnection()
Wake(c, accepted) ==
    /\ qpc[c] = "sleeping"
    /\ getLazyConnection(c, qAttempts[c], accepted)
    /\ UNCHANGED <<cachedConnection, connectionRetries, connState, qCalls,
                   pipeVars, connVars, funVars,
                   mongoVars, procVars>>

\* an 'error' event on connection n or its channel
ConnError(n) ==
    /\ connState[n] = "alive"
    /\ connState' = [connState EXCEPT ![n] = "errored"]
    /\ cachedConnection' = OnConnectionEvent(cachedConnection)
    /\ UNCHANGED <<rabbitConnecting, connectionRetries, qpc, qAttempts, qHandle,
                   qResult, qCalls, pipeVars, connVars, funVars,
                   mongoVars, procVars>>

\* the 'close' event of connection n or its channel, after an error or not
ConnClose(n) ==
    /\ connState[n] \in {"alive", "errored"}
    /\ connState' = [connState EXCEPT ![n] = "closed"]
    /\ cachedConnection' = OnConnectionEvent(cachedConnection)
    /\ UNCHANGED <<rabbitConnecting, connectionRetries, qpc, qAttempts, qHandle,
                   qResult, qCalls, pipeVars, connVars, funVars,
                   mongoVars, procVars>>

InitQueue ==
    /\ cachedConnection = 0
    /\ rabbitConnecting = FALSE
    /\ connectionRetries = 0
    /\ connState = [n \in Connections |-> "none"]
    /\ qpc = [c \in Publishers |-> "idle"]
    /\ qAttempts = [c \in Publishers |-> 0]
    /\ qHandle = [c \in Publishers |-> 0]
    /\ qResult = [c \in Publishers |-> "none"]
    /\ qCalls = 0

NextQueue ==
    \/ \E c \in Publishers, accepted \in BOOLEAN : PublishCall(c, accepted)
    \/ \E c \in Publishers, accepted \in BOOLEAN : Poll(c, accepted)
    \/ \E c \in Publishers, accepted \in BOOLEAN : CreateOk(c, accepted)
    \/ \E c \in Publishers : CreateFail(c)
    \/ \E c \in Publishers, accepted \in BOOLEAN : Wake(c, accepted)
    \/ \E n \in Connections : ConnError(n)
    \/ \E n \in Connections : ConnClose(n)

\* ------------------------------------------------------------------------
\* mongodb.service.ts: connectMongo
\* ------------------------------------------------------------------------
\* the parameter retries of connectMongo (default 3)
MongoRetries == 2

\* concurrent callers of connectMongo
MongoCallers == 1..2
Clients == 1..MaxClients

\* the module's state and a caller's locals, as values
MS ==
    [client |-> mongoClient, db |-> mongoDb, connecting |-> mongoConnecting,
     state |-> clientState, pinged |-> pinged, indexed |-> mIndexed]
ML(c) ==
    [pc |-> mpc[c], await |-> mAwait[c], attempt |-> mAttempt[c], ret |-> mRet[c],
     dials |-> mDials[c]]
Out(s, l) == [s |-> s, l |-> l]

NoRet == [kind |-> "none", db |-> 0]

\* return db: the module variable as it is now
ReturnDb(s, l) ==
    Out(s, [l EXCEPT !.pc = "idle", !.await = 0, !.attempt = 0,
                     !.ret = [kind |-> "db", db |-> s.db]])

\* throw finalError
Throw(s, l) ==
    Out(s, [l EXCEPT !.pc = "idle", !.await = 0, !.attempt = 0,
                     !.ret = [kind |-> "threw", db |-> 0]])

HasFresh(s) == \E n \in Clients : s.state[n] = "none"
Fresh(s) == CHOOSE n \in Clients :
                s.state[n] = "none" /\ \A m \in Clients : m < n => s.state[m] # "none"

\* attempt k of the loop: client = new MongoClient(...); await client.connect()
Attempt(s, l, k) ==
    IF ~HasFresh(s) THEN Out(s, [l EXCEPT !.pc = "none"])
    ELSE Out([s EXCEPT !.client = Fresh(s), !.state[Fresh(s)] = "open"],
             [l EXCEPT !.pc = "connect", !.await = Fresh(s), !.attempt = k,
                       !.dials = @ + 1])

\* isConnecting = true, and the first attempt
BeginLoop(s, l) == Attempt([s EXCEPT !.connecting = TRUE], l, 1)

\* if (isConnecting) await sleep(2000)
Gate(s, l) ==
    IF s.connecting THEN Out(s, [l EXCEPT !.pc = "wait"]) ELSE BeginLoop(s, l)

\* connectMongo from its first line: the cached connection is probed
Enter(s, l) ==
    IF s.db # 0 /\ s.client # 0
    THEN Out(s, [l EXCEPT !.pc = "probe", !.await = s.client])
    ELSE Gate(s, l)

\* variant: the loop has no last attempt
AfterClose_NoLimit(s, l) ==
    Out([s EXCEPT !.client = 0, !.db = 0], [l EXCEPT !.pc = "sleep", !.await = 0])

\* the catch of an attempt after client.close(): client = null, db = null,
\* then the delay, or after the last attempt the throw
AfterClose(s, l) ==
    LET s1 == [s EXCEPT !.client = 0, !.db = 0]
    IN  IF l.attempt < MongoRetries
        THEN Out(s1, [l EXCEPT !.pc = "sleep", !.await = 0])
        ELSE Throw([s1 EXCEPT !.connecting = FALSE], l)

\* the catch of an attempt: if (client) await client.close(), on the module's
\* client as it is now
Catch(s, l) ==
    IF s.client # 0
    THEN Out([s EXCEPT !.state[s.client] = "closed"],
             [l EXCEPT !.pc = "closing", !.await = s.client])
    ELSE AfterClose(s, l)

SetMongo(c, r) ==
    /\ r.l.pc # "none"
    /\ mongoClient' = r.s.client
    /\ mongoDb' = r.s.db
    /\ mongoConnecting' = r.s.connecting
    /\ clientState' = r.s.state
    /\ pinged' = r.s.pinged
    /\ mpc' = [mpc EXCEPT ![c] = r.l.pc]
    /\ mAwait' = [mAwait EXCEPT ![c] = r.l.await]
    /\ mAttempt' = [mAttempt EXCEPT ![c] = r.l.attempt]
    /\ mRet' = [mRet EXCEPT ![c] = r.l.ret]
    /\ mDials' = [mDials EXCEPT ![c] = r.l.dials]
    /\ mIndexed' = r.s.indexed

\* a promise of client n can resolve only while n is not closed
Usable(n) == n # 0 /\ clientState[n] = "open"

\* connectMongo() is called
ConnectMongo(c) ==
    /\ mpc[c] = "idle"
    /\ mCalls < MaxMongoCalls
    /\ mCalls' = mCalls + 1
    /\ SetMongo(c, Enter(MS, [ML(c) EXCEPT !.ret = NoRet, !.dials = 0]))
    /\ UNCHANGED <<pipeVars, connVars, funVars, queueVars, procVars>>

\* the ping of the cached client returns (ok) or throws
ProbeDone(c, ok) ==
    /\ mpc[c] = "probe"
    /\ ok => Usable(mAwait[c])
    /\ SetMongo(c, IF ok
                   THEN ReturnDb([MS EXCEPT !.pinged = @ \cup {mAwait[c]}], ML(c))
                   ELSE Gate([MS EXCEPT !.db = 0, !.client = 0], ML(c)))
    /\ UNCHANGED <<mCalls, pipeVars, connVars, funVars, queueVars, procVars>>

\* the 2 s wait is over: if (db) return db, else on to the loop
WaitDone(c) ==
    /\ mpc[c] = "wait"
    /\ SetMongo(c, IF mongoDb # 0 THEN ReturnDb(MS, ML(c)) ELSE BeginLoop(MS, ML(c)))
    /\ UNCHANGED <<mCalls, pipeVars, connVars, funVars, queueVars, procVars>>

\* client.connect() returns or throws; then the ping of line 90 starts, on
\* the module's client as it is now
ConnectDone(c, ok) ==
    /\ mpc[c] = "connect"
    /\ ok => Usable(mAwait[c])
    /\ SetMongo(c, IF ok /\ mongoClient # 0
                   THEN Out(MS, [ML(c) EXCEPT !.pc = "ping", !.await = mongoClient])
                   ELSE Catch(MS, ML(c)))
    /\ UNCHANGED <<mCalls, pipeVars, connVars, funVars, queueVars, procVars>>

\* the ping returns or throws; then db = client.db(...) and createIndex
PingDone(c, ok) ==
    /\ mpc[c] = "ping"
    /\ ok => Usable(mAwait[c])
    /\ SetMongo(c, IF ok /\ mongoClient # 0
                   THEN Out([MS EXCEPT !.pinged = @ \cup {mAwait[c]},
                                       !.db = mongoClient],
                            [ML(c) EXCEPT !.pc = "index", !.await = mongoClient])
                   ELSE Catch([MS EXCEPT !.pinged = IF ok THEN @ \cup {mAwait[c]} ELSE @],
                              ML(c)))
    /\ UNCHANGED <<mCalls, pipeVars, connVars, funVars, queueVars, procVars>>

\* createIndex returns or throws; isConnecting = false; return db
IndexDone(c, ok) ==
    /\ mpc[c] = "index"
    /\ ok => Usable(mAwait[c])
    /\ SetMongo(c, IF ok THEN ReturnDb([MS EXCEPT !.connecting = FALSE,
                                                  !.indexed = TRUE], ML(c))
                   ELSE Catch(MS, ML(c)))
    /\ UNCHANGED <<mCalls, pipeVars, connVars, funVars, queueVars, procVars>>

\* client.close() returns or throws
CloseDone(c) ==
    /\ mpc[c] = "closing"
    /\ SetMongo(c, AfterClose(MS, ML(c)))
    /\ UNCHANGED <<mCalls, pipeVars, connVars, funVars, queueVars, procVars>>

\* delayMs has passed: the next attempt
SleepDone(c) ==
    /\ mpc[c] = "sleep"
    /\ SetMongo(c, Attempt(MS, ML(c), mAttempt[c] + 1))
    /\ UNCHANGED <<mCalls, pipeVars, connVars, funVars, queueVars, procVars>>

InitMongo ==
    /\ mongoClient = 0
    /\ mongoDb = 0
    /\ mongoConnecting = FALSE
    /\ clientState = [n \in Clients |-> "none"]
    /\ pinged = {}
    /\ mpc = [c \in MongoCallers |-> "idle"]
    /\ mAwait = [c \in MongoCallers |-> 0]
    /\ mAttempt = [c \in MongoCallers |-> 0]
    /\ mRet = [c \in MongoCallers |-> NoRet]
    /\ mDials = [c \in MongoCallers |-> 0]
    /\ mIndexed = FALSE
    /\ mCalls = 0

NextMongo ==
    \/ \E c \in MongoCallers : ConnectMongo(c)
    \/ \E c \in MongoCallers, ok \in BOOLEAN : ProbeDone(c, ok)
    \/ \E c \in MongoCallers : WaitDone(c)
    \/ \E c \in MongoCallers, ok \in BOOLEAN : ConnectDone(c, ok)
    \/ \E c \in MongoCallers, ok \in BOOLEAN : PingDone(c, ok)
    \/ \E c \in MongoCallers, ok \in BOOLEAN : IndexDone(c, ok)
    \/ \E c \in MongoCallers : CloseDone(c)
    \/ \E c \in MongoCallers : SleepDone(c)

\* ------------------------------------------------------------------------
\* whatsapp.service.ts: configuration.  WHATSAPP_CONFIG.reconnect is not among
\* the sources; the retry ceilings are taken distinct, the one for 503 larger
\* (the README names 10 and 15 as defaults)
\* ------------------------------------------------------------------------
maxRetries == 2
error503MaxRetries == 3

\* the statusCode a disconnect carries, as far as the manager tells them apart;
\* "none" is an undefined statusCode
StatusCodes == {"503", "500", "other", "none"}

\* the cause of a close event: the four status codes the handler names, an
\* error whose message says timeout, and any other error, a Boom or not
Causes == {"401", "405", "503", "500", "timeout", "otherBoom", "otherPlain"}

\* callers of connectToWhatsApp: main(), the reconnection timer (with the
\* statusCode of its closure), the 3 s timer of the 405 branch, and the
\* reconnectCallback handed to handleConnectionUpdate
TimerCaller(code) == "timer" \o code
Callers == {"main", "restart", "callback"} \cup { TimerCaller(c) : c \in StatusCodes }

ClosureCode(caller) == CHOOSE c \in StatusCodes : caller = TimerCaller(c)

getMaxRetries(isError503) == IF isError503 THEN error503MaxRetries ELSE maxRetries

\* the delay settings of WHATSAPP_CONFIG.reconnect, which is not among the
\* sources: values around the defaults the README names (3 s initial delay,
\* 60 s maximum, multiplier 2), with a base delay of its own for 503
ReconnectConfigs ==
    [initialDelay : {1000, 3000},
     error503InitialDelay : {3000, 5000},
     backoffMultiplier : {1, 2},
     maxDelay : {10000, 60000}]

\* Math.pow(b, n) for integers b and n >= 0
RECURSIVE Pow(_, _)
Pow(b, n) == IF n = 0 THEN 1 ELSE b * Pow(b, n - 1)

\* Math.min(a, b)
Min(a, b) == IF a <= b THEN a ELSE b

\* variant: the delay is not capped
getReconnectDelay_NoCap(config, isError503, attempts) ==
    (IF isError503 THEN config.error503InitialDelay ELSE config.initialDelay)
        * Pow(config.backoffMultiplier, attempts)

\* getReconnectDelay(isError503), reading the settings and reconnectAttempts
getReconnectDelay(config, isError503, attempts) ==
    LET baseDelay == IF isError503 THEN config.error503InitialDelay
                     ELSE config.initialDelay
    IN  Min(baseDelay * Pow(config.backoffMultiplier, attempts), config.maxDelay)

\* the manager's reconnection state as one value
Manager ==
    [reconnectAttempts |-> reconnectAttempts, isConnecting |-> isConnecting,
     reconnectTimer |-> reconnectTimer, pendingTimers |-> pendingTimers,
     connectionStats |-> connectionStats]

\* clearTimeout(handle)
ClearTimeout(timers, handle) == { t \in timers : t.id # handle }

\* a handle no live timer and no variable holds
FreshTimer(m) ==
    CHOOSE i \in 1..(Cardinality(m.pendingTimers) + 2) :
        /\ i # m.reconnectTimer
        /\ \A t \in m.pendingTimers : t.id # i

logErrorStats(m, code) ==
    [m EXCEPT !.connectionStats.error503Count = IF code = "503" THEN @ + 1 ELSE @,
              !.connectionStats.error500Count = IF code = "500" THEN @ + 1 ELSE @,
              !.connectionStats.totalReconnects = @ + 1]

\* variant: the pending timer is left armed
resetReconnectState_KeepTimer(m) ==
    [m EXCEPT !.reconnectAttempts = 0,
              !.isConnecting = FALSE]

\* variant: the attempt counter is left as it is
resetReconnectState_KeepAttempts(m) ==
    [m EXCEPT !.isConnecting = FALSE,
              !.pendingTimers = ClearTimeout(@, m.reconnectTimer),
              !.reconnectTimer = 0]

resetReconnectState(m) ==
    [m EXCEPT !.reconnectAttempts = 0,
              !.isConnecting = FALSE,
              !.pendingTimers = ClearTimeout(@, m.reconnectTimer),
              !.reconnectTimer = 0]

\* variant: the flag is set and the attempt counted, but no timer is armed
scheduleReconnect_NoTimer(m, code, epoch) ==
    IF m.isConnecting THEN m
    ELSE LET cleared == [m EXCEPT !.pendingTimers = ClearTimeout(@, m.reconnectTimer)]
         IN  IF cleared.reconnectAttempts >= getMaxRetries(code = "503")
             THEN logErrorStats(cleared, code)
             ELSE logErrorStats(
                      [cleared EXCEPT !.isConnecting = TRUE,
                                      !.reconnectAttempts = @ + 1,
                                      !.connectionStats.lastError = code],
                      code)

\* scheduleReconnect(reason, statusCode); epoch is the number of open events
\* seen when the timer is set
scheduleReconnect(m, code, epoch) ==
    IF m.isConnecting THEN m
    ELSE LET cleared == [m EXCEPT !.pendingTimers = ClearTimeout(@, m.reconnectTimer)]
             isError503 == code = "503"
         IN  IF cleared.reconnectAttempts >= getMaxRetries(isError503)
             THEN logErrorStats(cleared, code)
             ELSE LET counted ==
                          logErrorStats(
                              [cleared EXCEPT !.isConnecting = TRUE,
                                              !.reconnectAttempts = @ + 1,
                                              !.connectionStats.lastError = code],
                              code)
                      handle == FreshTimer(counted)
                  IN  [counted EXCEPT
                          !.reconnectTimer = handle,
                          !.pendingTimers =
                              @ \cup {[id |-> handle, code |-> code, epoch |-> epoch]}]

\* variant: the catch block only resets isConnecting and rethrows
ConnectCatch_NoRetry(m, epoch) == [m EXCEPT !.isConnecting = FALSE]

\* the catch block of connectToWhatsApp
ConnectCatch(m, epoch) ==
    LET m1 == [m EXCEPT !.isConnecting = FALSE]
    IN  IF m1.reconnectAttempts < getMaxRetries(FALSE)
        THEN scheduleReconnect(m1, "none", epoch)
        ELSE m1

\* the catch block of the reconnection timer's callback, code being the
\* statusCode of its closure
TimerCatch(m, code, epoch) ==
    LET m1 == [m EXCEPT !.isConnecting = FALSE]
    IN  IF m1.reconnectAttempts < getMaxRetries(code = "503")
        THEN scheduleReconnect(m1, code, epoch)
        ELSE logErrorStats(m1, code)

\* handleConnectionUpdate on a close: error instanceof Boom and
\* statusCode !== DisconnectReason.loggedOut
ShouldReconnect(cause) == cause = "otherBoom"

SetManager(m) ==
    /\ reconnectAttempts' = m.reconnectAttempts
    /\ isConnecting' = m.isConnecting
    /\ reconnectTimer' = m.reconnectTimer
    /\ pendingTimers' = m.pendingTimers
    /\ connectionStats' = m.connectionStats

Ev(name, m) ==
    [name |-> name, cleared |-> Cardinality(pendingTimers \ m.pendingTimers)]

Call(caller) == [inflight EXCEPT ![caller] = @ + 1]
Return(caller) == [inflight EXCEPT ![caller] = @ - 1]

\* ------------------------------------------------------------------------
\* The resilience manager: one action per event
\* ------------------------------------------------------------------------
\* main(): the first connectToWhatsApp()
Main ==
    /\ ~started
    /\ started' = TRUE
    /\ inflight' = Call("main")
    /\ lastEv' = Ev("main", Manager)
    /\ UNCHANGED <<reconnectAttempts, isConnecting, reconnectTimer, pendingTimers,
                   lastSuccessfulConnection, connectionStats, restartTimers,
                   clearing, connecting, open, created, opens, authState, pipeVars, funVars, clientVars>>

\* connectToWhatsApp returns a socket with its handlers registered
ConnectOk(caller) ==
    /\ inflight[caller] > 0
    /\ created < MaxSockets
    /\ inflight' = Return(caller)
    /\ created' = created + 1
    /\ connecting' = connecting + 1
    /\ isConnecting' = FALSE
    /\ lastEv' = Ev("connected", Manager)
    /\ UNCHANGED <<reconnectAttempts, reconnectTimer, pendingTimers,
                   lastSuccessfulConnection, connectionStats, restartTimers,
                   clearing, open, opens, started, authState, pipeVars, funVars, clientVars>>

\* connectToWhatsApp throws: its catch block, then the catch block of the
\* caller when that is the reconnection timer
ConnectFail(caller) ==
    /\ inflight[caller] > 0
    /\ inflight' = Return(caller)
    /\ LET m1 == ConnectCatch(Manager, opens)
           m2 == IF \E c \in StatusCodes : caller = TimerCaller(c)
                 THEN TimerCatch(m1, ClosureCode(caller), opens)
                 ELSE m1
       IN  /\ SetManager(m2)
           /\ lastEv' = Ev("connectFailed", m2)
    /\ UNCHANGED <<lastSuccessfulConnection, restartTimers, clearing, connecting,
                   open, created, opens, started, authState, pipeVars, funVars, clientVars>>

\* connection.update with connection === 'open'
OnOpen ==
    /\ connecting > 0
    /\ connecting' = connecting - 1
    /\ open' = open + 1
    /\ opens' = opens + 1
    /\ lastSuccessfulConnection' = opens + 1
    /\ SetManager(resetReconnectState(Manager))
    /\ lastEv' = Ev("open", resetReconnectState(Manager))
    /\ authState' = "present"
    /\ UNCHANGED <<restartTimers, clearing, inflight, created, started, pipeVars,
                   funVars, clientVars>>

\* connection.update with connection === 'close' on a socket that is open
\* (wasOpen) or still connecting
OnClose(wasOpen, cause) ==
    /\ IF wasOpen THEN open > 0 ELSE connecting > 0
    /\ open' = IF wasOpen THEN open - 1 ELSE open
    /\ connecting' = IF wasOpen THEN connecting ELSE connecting - 1
    /\ LET m == CASE cause = "401" -> resetReconnectState(Manager)
                  [] cause = "405" -> Manager
                  [] cause \in {"503", "500"} ->
                        scheduleReconnect(Manager, cause, opens)
                  [] cause = "timeout" ->
                        scheduleReconnect(
                            [Manager EXCEPT !.connectionStats.errorTimeoutCount = @ + 1],
                            "other", opens)
                  [] cause \in {"otherBoom", "otherPlain"} ->
                        scheduleReconnect(Manager, "other", opens)
       IN  /\ SetManager(m)
           /\ lastEv' = Ev("close" \o cause, m)
    /\ clearing' = IF cause = "405" THEN clearing + 1 ELSE clearing
    /\ inflight' = IF cause \in {"otherBoom", "otherPlain"} /\ ShouldReconnect(cause)
                    THEN Call("callback")
                    ELSE inflight
    /\ UNCHANGED <<lastSuccessfulConnection, restartTimers, created, opens,
                   started, authState, pipeVars, funVars, clientVars>>

\* clearAuthState(): every file under authStatePath is unlinked; when readdir
\* or an unlink throws (ok false) the error is logged and the files stay
clearAuthState(auth, ok) == IF ok THEN "cleared" ELSE auth

\* the 405 branch after await clearAuthState()
ClearAuthDone(ok) ==
    /\ clearing > 0
    /\ clearing' = clearing - 1
    /\ authState' = clearAuthState(authState, ok)
    /\ reconnectAttempts' = 0
    /\ restartTimers' = restartTimers + 1
    /\ lastEv' = Ev("cleared", Manager)
    /\ UNCHANGED <<isConnecting, reconnectTimer, pendingTimers,
                   lastSuccessfulConnection, connectionStats, inflight, connecting,
                   open, created, opens, started, pipeVars, funVars, clientVars>>

\* the 3 s timer of the 405 branch fires
RestartFire ==
    /\ restartTimers > 0
    /\ restartTimers' = restartTimers - 1
    /\ isConnecting' = FALSE
    /\ inflight' = Call("restart")
    /\ lastEv' = Ev("restartFired", Manager)
    /\ UNCHANGED <<reconnectAttempts, reconnectTimer, pendingTimers,
                   lastSuccessfulConnection, connectionStats, clearing, connecting,
                   open, created, opens, started, authState, pipeVars, funVars, clientVars>>

\* a reconnection timer fires: its callback calls connectToWhatsApp
TimerFire(t) ==
    /\ t \in pendingTimers
    /\ pendingTimers' = pendingTimers \ {t}
    /\ inflight' = Call(TimerCaller(t.code))
    /\ lastEv' = Ev("timerFired", Manager)
    /\ UNCHANGED <<reconnectAttempts, isConnecting, reconnectTimer,
                   lastSuccessfulConnection, connectionStats, restartTimers,
                   clearing, connecting, open, created, opens, started, authState, pipeVars, funVars, clientVars>>

InitConn ==
    /\ reconnectAttempts = 0
    /\ isConnecting = FALSE
    /\ reconnectTimer = 0
    /\ pendingTimers = {}
    /\ lastSuccessfulConnection = 0
    /\ connectionStats = [totalReconnects |-> 0, error503Count |-> 0,
                          error500Count |-> 0, errorTimeoutCount |-> 0,
                          lastError |-> "null"]
    /\ restartTimers = 0
    /\ clearing = 0
    /\ inflight = [c \in Callers |-> 0]
    /\ connecting = 0
    /\ open = 0
    /\ created = 0
    /\ opens = 0
    /\ started = FALSE
    /\ authState = "present"
    /\ lastEv = [name |-> "init", cleared |-> 0]

NextConn ==
    \/ Main
    \/ \E c \in Callers : ConnectOk(c)
    \/ \E c \in Callers : ConnectFail(c)
    \/ OnOpen
    \/ \E wasOpen \in BOOLEAN, cause \in Causes : OnClose(wasOpen, cause)
    \/ \E ok \in BOOLEAN : ClearAuthDone(ok)
    \/ RestartFire
    \/ \E t \in pendingTimers : TimerFire(t)

\* ------------------------------------------------------------------------
\* Specification of the ingestion pipeline
\* ------------------------------------------------------------------------
InitPipeline ==
    /\ now = 0
    /\ ticks = 0
    /\ nextCleanup = CLEANUP_INTERVAL
    /\ processedMessages = [k \in Keys |-> Never]
    /\ store = {}
    /\ nextOid = 1
    /\ published = [k \in Keys |-> <<>>]
    /\ reactions = [k \in Keys |-> [ok |-> 0, fail |-> 0]]
    /\ replies = [k \in Keys |-> 0]
    /\ deliveries = 0
    /\ batch = [h \in Handlers |-> <<>>]
    /\ idx = [h \in Handlers |-> 1]
    /\ pc = [h \in Handlers |-> "idle"]
    /\ savedDoc = [h \in Handlers |-> Null]
    /\ pubFailed = [h \in Handlers |-> FALSE]
    /\ seen = [k \in Keys |-> NoSeen]
    /\ trail = [h \in Handlers |-> NoTrail]
    /\ calls = [resolved |-> 0, rejected |-> 0, abandoned |-> 0]

NextPipeline ==
    \/ \E d \in TickSteps : Tick(d)
    \/ \E h \in Handlers, b \in Batches : Deliver(h, b)
    \/ \E h \in Handlers, ok \in BOOLEAN : StatusReply(h, ok)
    \/ \E h \in Handlers, ok \in BOOLEAN : StatusErrorReply(h, ok)
    \/ \E h \in Handlers, up \in BOOLEAN, findUp \in BOOLEAN : Save(h, up, findUp)
    \/ \E h \in Handlers, ok \in BOOLEAN : ReactFailure(h, ok)
    \/ \E h \in Handlers, ok \in BOOLEAN : NotifyMongo(h, ok)
    \/ \E h \in Handlers, up \in BOOLEAN : Publish(h, up)
    \/ \E h \in Handlers, ok \in BOOLEAN : NotifyRabbit(h, ok)
    \/ \E h \in Handlers, up \in BOOLEAN : MarkPublished(h, up)
    \/ \E h \in Handlers, ok \in BOOLEAN : ReactSuccess(h, ok)

\* the state after the modules are loaded, before main() runs
Init ==
    /\ InitPipeline
    /\ InitConn
    /\ InitQueue
    /\ InitMongo
    /\ InitProc
    /\ arg = Null
    /\ res = <<>>

SpecPipeline == Init /\ [][NextPipeline]_vars

SpecConn == Init /\ [][NextConn]_vars

\* the same with what the event loop guarantees: a timer that is set fires,
\* and a connectToWhatsApp call returns or throws
FairConn ==
    /\ WF_vars(\E t \in pendingTimers : TimerFire(t))
    /\ WF_vars(\E c \in Callers : ConnectOk(c) \/ ConnectFail(c))

SpecConnLive == Init /\ [][NextConn]_vars /\ FairConn

SpecQueue == Init /\ [][NextQueue]_vars

SpecMongo == Init /\ [][NextMongo]_vars

\* ------------------------------------------------------------------------
\* Specification of the backoff delay: getReconnectDelay applied for
\* reconnectAttempts = 0, 1, 2, ... under one configuration and cause class
\* ------------------------------------------------------------------------
DelayInputs ==
    [config : ReconnectConfigs, isError503 : BOOLEAN, reconnectAttempts : {0}]

InitDelay ==
    /\ InitPipeline
    /\ InitConn
    /\ InitQueue
    /\ InitMongo
    /\ InitProc
    /\ arg \in DelayInputs
    /\ res = <<>>

\* one more delay is computed, then reconnectAttempts goes up by one
Backoff ==
    /\ arg.reconnectAttempts <= MaxBackoffSteps
    /\ res' = Append(res, getReconnectDelay(arg.config, arg.isError503,
                                            arg.reconnectAttempts))
    /\ arg' = [arg EXCEPT !.reconnectAttempts = @ + 1]
    /\ UNCHANGED <<pipeVars, connVars, clientVars>>

NextDelay == Backoff

SpecDelay == InitDelay /\ [][NextDelay]_vars

\* ------------------------------------------------------------------------
\* Properties of the ingestion pipeline
\* ------------------------------------------------------------------------
K1 == MessageKey(M1)
XKeys == { k \in Keys : k[1] # TARGET_GROUP_ID }

DocKey(doc) == <<doc.chatId, doc.messageId>>

\* handler h has been through the write, publish and mark steps of the message
\* whose document it holds; only the reaction is left
Processed(h) == savedDoc[h] # Null /\ pc[h] = "reactOk"

\* C1: when the store write succeeded and the publish failed, and no publish
\* of that message ever succeeded, the record still has publishedToQueue =
\* false once the message has been processed.
C1_UnpublishedAfterPublishFailure ==
    \A h \in Handlers :
        (Processed(h) /\ pubFailed[h] /\ published[DocKey(savedDoc[h])] = <<>>)
            => \A d \in DocsOf(store, savedDoc[h].messageId) : ~d.publishedToQueue

\* C2: the store never holds two records with the same messageId, and holds
\* exactly one for every message whose saveVideoSuggestion has returned a
\* document, however often and whenever the message is delivered.
C2_OneRecordPerMessageId ==
    /\ \A id \in MsgIds : Cardinality(DocsOf(store, id)) <= 1
    /\ \A h \in Handlers :
          savedDoc[h] # Null => Cardinality(DocsOf(store, savedDoc[h].messageId)) = 1

\* M1 was processed twice, the second time after its dedup entry was evicted,
\* both invocations hold the one document
C2_Witness ==
    /\ seen[K1].passes = 2
    /\ \A h \in Handlers : savedDoc[h] # Null /\ savedDoc[h].messageId = "m1"
    /\ Cardinality(DocsOf(store, "m1")) = 1

\* C3: a message from a group other than TARGET_GROUP_ID leaves no record, no
\* publish, no reaction and no reply.
C3_UnauthorizedOriginIgnored ==
    /\ \A d \in store : d.chatId = TARGET_GROUP_ID
    /\ \A k \in XKeys :
          /\ published[k] = <<>>
          /\ reactions[k] = [ok |-> 0, fail |-> 0]
          /\ replies[k] = 0

\* the link from the other group has been through the loop
C3_Witness ==
    /\ seen[MessageKey(X1)].passes = 1
    /\ \A h \in Handlers : pc[h] = "idle"

\* C4: a delivery within the dedup window of an earlier one of the same key is
\* skipped, so the key's records, publishes and reactions stay those of the
\* deliveries that passed: one of each at most while all deliveries fall
\* within one window.
C4_NoReprocessingWithinWindow ==
    \A k \in Keys :
        /\ seen[k].verdict # "passed-young"
        /\ Len(published[k]) <= seen[k].passes
        /\ reactions[k].ok + reactions[k].fail <= seen[k].passes
        /\ Cardinality({ d \in store : DocKey(d) = k }) <= 1

\* M1 was fully processed once and its second delivery was skipped
C4_Witness ==
    /\ seen[K1].verdict = "skipped-young"
    /\ seen[K1].passes = 1
    /\ Len(published[K1]) = 1
    /\ reactions[K1] = [ok |-> 1, fail |-> 0]
    /\ Cardinality(DocsOf(store, "m1")) = 1

\* C5: a delivery more than CACHE_DURATION after the first sighting of its key
\* is never skipped as a duplicate.
C5_ExpiredEntryNeverSuppresses ==
    \A k \in Keys : seen[k].verdict # "skipped-expired"

\* the due time of the cleanup that ran last
LastCleanup == nextCleanup - CLEANUP_INTERVAL

\* C6: an entry is missing from the cache only if it was older than
\* CACHE_DURATION at a cleanup, and a delivery less than CACHE_DURATION after
\* the first sighting is skipped.
C6_YoungEntryKept ==
    \A k \in Keys :
        /\ (seen[k].lastPass # Never /\ processedMessages[k] = Never)
              => LastCleanup - seen[k].lastPass > CACHE_DURATION
        /\ seen[k].verdict # "passed-young"

\* a cleanup has run over an entry younger than CACHE_DURATION, which is still
\* in the cache
C6_Witness ==
    \E k \in Keys :
        /\ processedMessages[k] # Never
        /\ processedMessages[k] < LastCleanup
        /\ LastCleanup - processedMessages[k] < CACHE_DURATION

\* ------------------------------------------------------------------------
\* Properties of the resilience manager
\* ------------------------------------------------------------------------
InFlight ==
    inflight["main"] + inflight["restart"] + inflight["callback"]
    + inflight["timer503"] + inflight["timer500"] + inflight["timerother"]
    + inflight["timernone"]

C8_OneAttemptOneTimer ==
    /\ InFlight <= 1
    /\ Cardinality(pendingTimers) <= 1

RetryableClose ==
    {"close503", "close500", "closetimeout", "closeotherBoom", "closeotherPlain"}

CeilingOf(name) == IF name = "close503" THEN error503MaxRetries ELSE maxRetries

\* C9: a close of a retryable cause that arrives when reconnectAttempts has
\* reached the ceiling of the cause starts no connection attempt and sets no
\* timer.
C9_NoAttemptAtCeiling ==
    [][(lastEv'.name \in RetryableClose /\ reconnectAttempts >= CeilingOf(lastEv'.name))
          => /\ inflight' = inflight
             /\ pendingTimers' \subseteq pendingTimers]_vars

C11_DelayMonotoneAndCapped ==
    \A i \in 1..Len(res) :
        /\ res[i] <= arg.config.maxDelay
        /\ i > 1 => res[i - 1] <= res[i]

\* the delay grew from one attempt to the next and then reached the cap
C11_Witness ==
    /\ Len(res) >= 3
    /\ res[1] < res[2]
    /\ res[Len(res) - 1] = arg.config.maxDelay
    /\ res[Len(res)] = arg.config.maxDelay
    /\ arg.isError503

\* ------------------------------------------------------------------------
\* Properties of the resilience manager: the 405 branch and failed attempts
\* ------------------------------------------------------------------------
\* C12: the 405 branch sets reconnectAttempts to 0 once clearAuthState is
\* over, and its timer starts exactly one connectToWhatsApp, with the
\* credentials cleared and without touching reconnectAttempts.
C12_ClearThenReconnectOnce ==
    [][/\ lastEv'.name = "cleared" => reconnectAttempts' = 0 /\ inflight' = inflight
       /\ lastEv'.name = "restartFired" =>
             /\ authState = "cleared"
             /\ inflight' = Call("restart")
             /\ reconnectAttempts' = reconnectAttempts]_vars

\* C13 as stated: a failed connectToWhatsApp() schedules no reconnection.
C13_NoRetryAfterFailedConnect ==
    [][lastEv'.name = "connectFailed" => pendingTimers' \subseteq pendingTimers]_vars

\* C13 as the code has it: while reconnectAttempts is below maxRetries, a
\* failed connectToWhatsApp() leaves one reconnection timer armed, held
\* in reconnectTimer, and reconnectAttempts incremented, once by its own catch
\* block and once more when the call came from a reconnection timer whose
\* catch block schedules again.
C13_FailedConnectSchedulesRetry ==
    [][(lastEv'.name = "connectFailed" /\ reconnectAttempts < maxRetries) =>
          /\ \E t \in pendingTimers' :
                /\ pendingTimers' = {t}
                /\ t.id = reconnectTimer'
          /\ reconnectAttempts' \in {reconnectAttempts + 1, reconnectAttempts + 2}]_vars

\* the first connectToWhatsApp() of main() failed and a retry is armed
C13_Witness ==
    /\ lastEv.name = "connectFailed"
    /\ reconnectAttempts = 1
    /\ Cardinality(pendingTimers) = 1
    /\ created = 0

\* the calls made for the message handler h took up last, and that message
Steps(h) == trail[h].steps
StepNames(h) == { Steps(h)[i].step : i \in 1..Len(Steps(h)) }
SaveFailed(h) == Steps(h) # <<>> /\ Steps(h)[1] = [step |-> "save", ok |-> FALSE]

\* C14: once saveVideoSuggestion has thrown for a message, the next call made
\* for it is the failure reaction, and no publish, no markAsPublished and no
\* success reaction is ever made for it; when the message was taken up once,
\* nothing was published for it, it has no success reaction, and it has one
\* failure reaction once that reaction was delivered.
C14_SaveFailureIsTerminal ==
    \A h \in Handlers :
        SaveFailed(h) =>
            LET k == trail[h].key
            IN  /\ StepNames(h) \subseteq {"save", "reactFail", "notifyMongo"}
                /\ Len(Steps(h)) = 1 => pc[h] = "reactFail"
                /\ Len(Steps(h)) >= 2 => Steps(h)[2].step = "reactFail"
                /\ seen[k].passes = 1 =>
                      /\ published[k] = <<>>
                      /\ reactions[k].ok = 0
                      /\ FindOne(store, k[2]) = Null
                      /\ (Len(Steps(h)) >= 2 /\ Steps(h)[2].ok) => reactions[k].fail = 1

\* a message whose save failed was left after its failure reaction was delivered
C14_Witness ==
    \E h \in Handlers :
        /\ SaveFailed(h)
        /\ pc[h] = "idle"
        /\ Len(Steps(h)) = 3
        /\ Steps(h)[2] = [step |-> "reactFail", ok |-> TRUE]
        /\ seen[trail[h].key].passes = 1
        /\ reactions[trail[h].key].fail = 1

\* C15: no invocation of handleMessagesUpsert ends before it has reached
\* every message of its batch, whichever call failed on the way.
C15_NoMessageAbandoned == calls.abandoned = 0

\* C16: no invocation of handleMessagesUpsert rejects, whichever of its
\* calls to the store, the queue and the session failed.
C16_NeverRejects == calls.rejected = 0

\* an invocation ended in the outer catch: both sends of the status command threw
C16_Witness ==
    \E h \in Handlers :
        /\ pc[h] = "idle"
        /\ Len(Steps(h)) = 2
        /\ Steps(h)[2] = [step |-> "statusErr", ok |-> FALSE]
        /\ calls.resolved >= 1

\* position of the first call named step among the calls made for the message
\* of handler h, 0 when there is none
First(h, step) ==
    IF step \in StepNames(h)
    THEN CHOOSE i \in 1..Len(Steps(h)) :
            /\ Steps(h)[i].step = step
            /\ \A j \in 1..(i - 1) : Steps(h)[j].step # step
    ELSE 0

\* C17: for the message an invocation works on, the publish is awaited only
\* with the record written (saveVideoSuggestion returned it and the store holds
\* it), markAsPublished and the success reaction only after the publish call
\* has returned or thrown, each call at most once and one at a time: the
\* invocation is at one await, and the calls made form the sequence save,
\* publish, mark, reactOk.
C17_StepsCausallyOrdered ==
    \A h \in Handlers :
        LET k == trail[h].key
            done(step) == First(h, step) > 0
            busy(step) == pc[h] = step
        IN  /\ (busy("publish") \/ done("publish")) =>
                  /\ Steps(h)[1] = [step |-> "save", ok |-> TRUE]
                  /\ FindOne(store, k[2]) # Null
            /\ busy("publish") => savedDoc[h] # Null /\ ~done("publish")
            /\ (busy("mark") \/ done("mark")) => done("publish")
            /\ (busy("reactOk") \/ done("reactOk")) => done("publish")
            /\ done("mark") => First(h, "publish") < First(h, "mark")
            /\ done("reactOk") => First(h, "mark") > 0 /\ First(h, "mark") < First(h, "reactOk")
            /\ \A i, j \in 1..Len(Steps(h)) :
                  i # j => Steps(h)[i].step # Steps(h)[j].step

\* a message went through save, publish, mark and the success reaction
C17_Witness ==
    \E h \in Handlers :
        /\ pc[h] = "idle"
        /\ Steps(h) = << [step |-> "save", ok |-> TRUE], [step |-> "publish", ok |-> TRUE],
                         [step |-> "mark", ok |-> TRUE], [step |-> "reactOk", ok |-> TRUE] >>

\* every call made for the message of handler h returned
AllOk(h) == \A i \in 1..Len(Steps(h)) : Steps(h)[i].ok

\* C18: when an invocation has left a link-bearing message of the authorized
\* group with every call for it having succeeded, and the message was taken up
\* once, the calls were save, publish, mark and the success reaction, the store
\* holds exactly one record of it, with status pending and publishedToQueue
\* true, exactly one payload was published and exactly one success reaction
\* and no failure reaction is on the message.
C18_HappyPathEffects ==
    \A h \in Handlers :
        LET k == trail[h].key
        IN  (/\ pc[h] = "idle"
             /\ Steps(h) # <<>>
             /\ Steps(h)[1].step = "save"
             /\ AllOk(h)
             /\ seen[k].passes = 1) =>
                /\ [i \in 1..Len(Steps(h)) |-> Steps(h)[i].step]
                      = <<"save", "publish", "mark", "reactOk">>
                /\ \E d \in store :
                      /\ DocsOf(store, k[2]) = {d}
                      /\ d.status = "pending"
                      /\ d.publishedToQueue
                      /\ d.chatId = TARGET_GROUP_ID
                /\ Len(published[k]) = 1
                /\ reactions[k] = [ok |-> 1, fail |-> 0]

\* M2 went through with store, queue and session available
C18_Witness ==
    \E h \in Handlers :
        /\ pc[h] = "idle"
        /\ trail[h].key = MessageKey(M2)
        /\ Len(Steps(h)) = 4
        /\ AllOk(h)
        /\ seen[MessageKey(M2)].passes = 1
        /\ \E d \in store : d.messageId = "m2" /\ d.publishedToQueue
        /\ reactions[MessageKey(M2)].ok = 1

\* C19: every payload published for a message carries the url, the text, the
\* sender name and the messageId of the record stored for that message.
C19_PayloadCarriesMessageId ==
    \A k \in Keys :
        \A i \in 1..Len(published[k]) :
            LET p == published[k][i]
                d == FindOne(store, k[2])
            IN  /\ d # Null
                /\ {"url", "texto", "sugeridoPor", "messageId"} \subseteq DOMAIN p
                /\ p.url = d.url
                /\ p.texto = d.texto
                /\ p.sugeridoPor = d.sugeridoPor
                /\ p.messageId = d.messageId

\* markAsPublished threw for the message of handler h, after its publish succeeded
MarkFailed(h) ==
    /\ Len(Steps(h)) >= 3
    /\ Steps(h)[2] = [step |-> "publish", ok |-> TRUE]
    /\ Steps(h)[3] = [step |-> "mark", ok |-> FALSE]

\* C20: once markAsPublished has thrown after a successful publish, the next
\* and only further call for the message is the success reaction: the publish
\* is not repeated; and for a message taken up once the one payload stays
\* published, the record stays in the store, unflagged, and the success
\* reaction is on the message once its send succeeded.
C20_MarkFailureNotFatal ==
    \A h \in Handlers :
        MarkFailed(h) =>
            LET k == trail[h].key
            IN  /\ Len(Steps(h)) = 3 => pc[h] = "reactOk"
                /\ Len(Steps(h)) <= 4
                /\ Len(Steps(h)) = 4 => Steps(h)[4].step = "reactOk"
                /\ seen[k].passes = 1 =>
                      /\ Len(published[k]) = 1
                      /\ \E d \in store : DocsOf(store, k[2]) = {d} /\ ~d.publishedToQueue
                      /\ reactions[k].fail = 0
                      /\ reactions[k].ok =
                            IF Len(Steps(h)) = 4 /\ Steps(h)[4].ok THEN 1 ELSE 0

\* a message was left with its success reaction sent although its
\* markAsPublished had thrown
C20_Witness ==
    \E h \in Handlers :
        /\ MarkFailed(h)
        /\ pc[h] = "idle"
        /\ Steps(h)[4] = [step |-> "reactOk", ok |-> TRUE]
        /\ seen[trail[h].key].passes = 1
        /\ reactions[trail[h].key].ok = 1
        /\ Len(published[trail[h].key]) = 1

\* handler h takes a step from the await named step
Leaves(h, step) == pc[h] = step /\ trail'[h] # trail[h]

\* the messages of the batch of handler h after the one it works on
Rest(h) == { batch[h][j] : j \in (idx[h] + 1)..Len(batch[h]) }

\* C21: a reaction whose send throws is not sent again and nothing is
\* rethrown.  After a failed failure reaction the invocation goes on to the
\* operator notification; after a failed success reaction it goes on to the
\* next message of the batch: no message is abandoned, the invocation does
\* not reject, and when it returns every message after this one that has
\* content has been through the dedup check.
C21_ReactionFailureSwallowed ==
    [][\A h \in Handlers :
          /\ (Leaves(h, "reactFail") /\ reactions' = reactions) =>
                /\ pc'[h] = "notifyMongo"
                /\ calls' = calls
                /\ idx'[h] = idx[h]
          /\ (Leaves(h, "reactOk") /\ reactions' = reactions) =>
                /\ pc'[h] \in {"idle", "save", "status"}
                /\ calls'.rejected = calls.rejected
                /\ calls'.abandoned = calls.abandoned
                /\ pc'[h] # "idle" => idx'[h] > idx[h]
                /\ pc'[h] = "idle" =>
                      \A m \in Rest(h) :
                          m.kind # "none" => seen'[MessageKey(m)].verdict # "none"]_vars

\* the success reaction on the first M1 of <<M1, M1>> threw, and the second
\* M1 was examined and skipped as a duplicate
C21_Witness ==
    \E h \in Handlers :
        /\ pc[h] = "idle"
        /\ Len(Steps(h)) = 4
        /\ Steps(h)[4] = [step |-> "reactOk", ok |-> FALSE]
        /\ seen[K1].verdict = "skipped-young"
        /\ reactions[K1].ok = 0

\* the text messages of the authorized group that read status or /status,
\* in any case
StatusCommands ==
    { m \in Messages :
        /\ m.jid = TARGET_GROUP_ID
        /\ m.kind = "text"
        /\ Len(m.text) = 1
        /\ m.text[1].body \in {"status", "Status", "STATUS", "/status"} }

\* C22: a status command from the authorized group never has a record, a
\* published payload or a reaction; whenever it passes the dedup check the
\* invocation goes to the status report, and when the send of the report
\* returns exactly one text reply has been added for it; it never has more
\* replies than times it was taken up.
C22_StatusCommandRepliesOnly ==
    [][\A m \in StatusCommands :
          LET k == MessageKey(m)
          IN  /\ DocsOf(store', m.id) = {}
              /\ published'[k] = <<>>
              /\ reactions'[k] = [ok |-> 0, fail |-> 0]
              /\ replies'[k] <= seen'[k].passes
              /\ seen'[k].passes > seen[k].passes =>
                    \E h \in Handlers :
                        /\ pc'[h] = "status"
                        /\ trail'[h] = [key |-> k, steps |-> <<>>]
              /\ \A h \in Handlers :
                    (Leaves(h, "status") /\ CurKey(h) = k /\ pc'[h] # "statusErr") =>
                        /\ replies'[k] = replies[k] + 1
                        /\ \A j \in Keys \ {k} : replies'[j] = replies[j]]_vars

\* the status command was taken up once and answered with the status report
C22_Witness ==
    \E h \in Handlers :
        /\ pc[h] = "idle"
        /\ trail[h] = [key |-> MessageKey(S1), steps |-> <<[step |-> "status", ok |-> TRUE]>>]
        /\ seen[MessageKey(S1)].passes = 1
        /\ replies[MessageKey(S1)] = 1
        /\ store = {}

\* ------------------------------------------------------------------------
\* Properties of the queue client
\* ------------------------------------------------------------------------
\* connection n has emitted an error or close event in this step
Emitted(n) == connState'[n] # connState[n] /\ connState'[n] \in {"errored", "closed"}

\* C23: right after any error or close event of a connection or its channel
\* cachedConnection is null; the cached handle is never one that has emitted
\* such an event; and a publishVideoSuggestion call never sends on one: the
\* handle it sends on is alive, and is the cached one.
C23_DeadHandleNeverServed ==
    [][/\ (\E n \in Connections : Emitted(n)) => cachedConnection' = 0
       /\ cachedConnection' # 0 => connState'[cachedConnection'] = "alive"
       /\ \A c \in Publishers :
             (qHandle'[c] # 0 /\ (qHandle'[c] # qHandle[c] \/ qpc[c] # "idle")) =>
                 /\ connState'[qHandle'[c]] = "alive"
                 /\ cachedConnection' = qHandle'[c]]_vars

\* connection 1 was cached, then closed, and a later call established
\* connection 2 and sent on it
C23_Witness ==
    /\ connState[1] = "closed"
    /\ connState[2] = "alive"
    /\ cachedConnection = 2
    /\ \E c \in Publishers : qHandle[c] = 2 /\ qResult[c] = "sent" /\ qAttempts[c] = 1
    /\ \E c \in Publishers : qHandle[c] = 1

\* C24: no publishVideoSuggestion call makes more than RABBITMQ_CONFIG.maxRetries
\* connection attempts, whatever other calls run beside it.
C24_AttemptsBoundedPerCall ==
    \A c \in Publishers : qAttempts[c] <= RabbitMaxRetries

\* the calls awaiting createConnection()
Creating == { c \in Publishers : qpc[c] = "creating" }

\* C36: at most one createConnection is in flight; a caller that finds
\* another one connecting waits, and leaves the wait only when that attempt
\* is over: with the cached connection if there is one, else as the one
\* connecting caller.
C36_OneCreateInFlight ==
    [][/\ Cardinality(Creating') <= 1
       /\ \A c \in Publishers :
             /\ (qpc[c] # "waiting" /\ qpc'[c] = "waiting") => Creating # {}
             /\ (qpc[c] = "waiting" /\ qpc'[c] # "waiting") =>
                   /\ Creating = {}
                   /\ IF cachedConnection # 0
                      THEN qpc'[c] = "idle" /\ qHandle'[c] = cachedConnection
                      ELSE Creating' = {c}]_vars

\* one caller dials after the failed attempt of another, which sleeps, while
\* the third waits for the dial to end
C36_Witness ==
    \E c, d, e \in Publishers :
        /\ qpc[c] = "creating" /\ qAttempts[c] = 1
        /\ qpc[d] = "sleeping"
        /\ qpc[e] = "waiting"

\* C37: an error or close event of a connection other than the cached one
\* leaves the cached handle in place.
C37_StaleEventKeepsHandle ==
    [][\A n \in Connections :
          (Emitted(n) /\ cachedConnection # 0 /\ cachedConnection # n)
              => cachedConnection' = cachedConnection]_vars

\* ------------------------------------------------------------------------
\* Properties of the store client
\* ------------------------------------------------------------------------
\* the connectMongo calls that are between new MongoClient and the end of
\* their attempt
Dialing == { c \in MongoCallers : mpc[c] \in {"connect", "ping", "index"} }

\* C25: at most one connectMongo call is dialing at any time.
C25_OneDialAtATime == Cardinality(Dialing) <= 1

\* C26: what a connectMongo call returns is a connection, and one on which
\* a ping has succeeded.
C26_ReturnsProbedConnection ==
    \A c \in MongoCallers :
        mRet[c].kind = "db" => mRet[c].db # 0 /\ mRet[c].db \in pinged

\* ------------------------------------------------------------------------
\* saveVideoSuggestion on its own: a run of saves on one collection
\* ------------------------------------------------------------------------
\* the videoData objects saved: two links of the group and one of another
\* chat that carries the messageId of the first
SaveInputs == { VideoData(m) : m \in {M1, M2, X1} }

InitSave ==
    /\ InitPipeline
    /\ InitConn
    /\ InitQueue
    /\ InitMongo
    /\ InitProc
    /\ arg = [coll |-> {}, oid |-> 1]
    /\ res = <<>>

\* one call of saveVideoSuggestion(data): the ObjectId is a fresh one, the
\* insert and the lookup after a duplicate-key error succeed or fail
SaveCall(data, up, findUp) ==
    LET r == saveVideoSuggestion(arg.coll, data, arg.oid, up, findUp)
    IN  /\ Len(res) < MaxSaves
        /\ arg' = [coll |-> r.coll, oid |-> arg.oid + 1]
        /\ res' = Append(res, [data |-> data, up |-> up, findUp |-> findUp,
                               before |-> arg.coll, after |-> r.coll,
                               doc |-> r.doc])
        /\ UNCHANGED <<pipeVars, connVars, clientVars>>

NextSave == \E data \in SaveInputs, up \in BOOLEAN, findUp \in BOOLEAN :
                SaveCall(data, up, findUp)

SpecSave == InitSave /\ [][NextSave]_vars

\* the saves before the i-th that returned a record for the same messageId
Earlier(i) ==
    { j \in 1..(i - 1) : /\ res[j].doc # Null
                         /\ res[j].data.messageId = res[i].data.messageId }

\* the i-th save is a second save: a record with its messageId is stored,
\* and the store answers the insert and the lookup
Resave(i) ==
    /\ res[i].up /\ res[i].findUp
    /\ DocsOf(res[i].before, res[i].data.messageId) # {}

\* C27: a save whose messageId already has a record (store reachable)
\* inserts nothing, does not throw, and returns the record stored before,
\* with the _id every earlier save of that messageId returned
C27_SaveIdempotentPerMessageId ==
    \A i \in 1..Len(res) :
        Resave(i) =>
            /\ res[i].after = res[i].before
            /\ res[i].doc # Null
            /\ res[i].doc \in res[i].before
            /\ Earlier(i) # {}
            /\ \A j \in Earlier(i) : res[j].doc._id = res[i].doc._id

\* a save of X1's data after M1's: the same messageId from another chat
C27_Witness ==
    /\ Len(res) = 2
    /\ res[1].data = VideoData(M1) /\ res[1].doc # Null
    /\ res[2].data = VideoData(X1) /\ Resave(2)
    /\ res[2].doc = res[1].doc

\* ------------------------------------------------------------------------
\* Properties of scheduleReconnect: the guard, the counter and the delay
\* ------------------------------------------------------------------------
\* a reconnection timer is pending or a connectToWhatsApp call has not returned
Busy == pendingTimers # {} \/ InFlight > 0

\* the counters scheduleReconnect keeps (errorTimeoutCount is the close
\* handler's own)
ScheduleStats(s) == [s EXCEPT !.errorTimeoutCount = 0]

\* C28: a close of a retryable cause calls scheduleReconnect; when a timer is
\* pending or a connection attempt is in flight the call changes neither
\* reconnectAttempts nor the pending timers nor the connection statistics.
C28_ScheduleNoOpWhileBusy ==
    [][(lastEv'.name \in RetryableClose /\ Busy)
          => /\ reconnectAttempts' = reconnectAttempts
             /\ pendingTimers' = pendingTimers
             /\ ScheduleStats(connectionStats') = ScheduleStats(connectionStats)]_vars

\* C29: reconnectAttempts goes up by one per reconnection attempt: no event
\* of the manager, a connection attempt that throws included, raises it by
\* more than one (every rise arms the one timer that starts the next attempt).
C29_OneIncrementPerAttempt ==
    [][reconnectAttempts' > reconnectAttempts
          => reconnectAttempts' = reconnectAttempts + 1]_vars

\* scheduleReconnect as the source of the delays: a run of reconnections
\* scheduled after an open event, under one configuration and cause class
InitSchedule ==
    /\ InitPipeline
    /\ InitConn
    /\ InitQueue
    /\ InitMongo
    /\ InitProc
    /\ arg \in DelayInputs
    /\ res = <<>>

\* one scheduleReconnect below the ceiling: reconnectAttempts++ and then
\* const delay = getReconnectDelay(isError503)
ScheduleDelay ==
    /\ arg.reconnectAttempts < MaxBackoffSteps
    /\ LET counted == [arg EXCEPT !.reconnectAttempts = @ + 1]
       IN  /\ arg' = counted
           /\ res' = Append(res, getReconnectDelay(counted.config, counted.isError503,
                                                   counted.reconnectAttempts))
    /\ UNCHANGED <<pipeVars, connVars, clientVars>>

NextSchedule == ScheduleDelay

SpecSchedule == InitSchedule /\ [][NextSchedule]_vars

BaseDelay(a) ==
    IF a.isError503 THEN a.config.error503InitialDelay ELSE a.config.initialDelay

\* C30: the first reconnection scheduled after an open event waits the
\* initial delay of its cause class, and the i-th one
\* min(baseDelay * multiplier^(i-1), maxDelay).
C30_FirstDelayIsInitialDelay ==
    \A i \in 1..Len(res) :
        res[i] = Min(BaseDelay(arg) * Pow(arg.config.backoffMultiplier, i - 1),
                     arg.config.maxDelay)

\* ------------------------------------------------------------------------
\* Properties of the dial loop of connectMongo
\* ------------------------------------------------------------------------
\* caller c's call ends in this step, returning from the loop or throwing
LoopReturns(c) == mpc[c] = "index" /\ mpc'[c] = "idle" /\ mRet'[c].kind = "db"
LoopThrows(c) == mRet[c].kind # "threw" /\ mRet'[c].kind = "threw"

\* C31: one connectMongo call makes at most retries MongoClients, every one
\* after the first following the delay; when it throws, client and db are
\* null and isConnecting is false; when its loop returns, createIndex has
\* succeeded and isConnecting is false.
C31_BoundedDialLoop ==
    [][\A c \in MongoCallers :
          /\ mDials'[c] <= MongoRetries
          /\ (mDials'[c] > mDials[c] /\ mDials[c] >= 1) => mpc[c] = "sleep"
          /\ LoopThrows(c) =>
                /\ mDials[c] = MongoRetries
                /\ mongoClient' = 0 /\ mongoDb' = 0 /\ ~mongoConnecting'
          /\ LoopReturns(c) => mIndexed' /\ ~mongoConnecting']_vars

\* a call whose first attempt failed returned from its second
C31_Witness ==
    \E c \in MongoCallers :
        /\ mRet[c].kind = "db" /\ mpc[c] = "idle"
        /\ mDials[c] = 2
        /\ mIndexed /\ ~mongoConnecting

\* ------------------------------------------------------------------------
\* Properties of the records' lifecycle
\* ------------------------------------------------------------------------
\* a record without the two fields markAsPublished sets
Frozen(d) == [d EXCEPT !.publishedToQueue = FALSE, !.publishedAt = Null]

\* C32: no step of the pipeline deletes a record or changes a field of it
\* other than publishedToQueue and publishedAt.
C32_RecordsOnlyFlagged ==
    [][\A d \in store :
          /\ Cardinality({ e \in store' : e._id = d._id }) = 1
          /\ \A e \in store' : e._id = d._id => Frozen(e) = Frozen(d)]_vars

\* two records, the one of M1 marked as published after the other was made
C32_Witness ==
    /\ Cardinality(store) = 2
    /\ \E d \in store :
          /\ d.messageId = M1.id
          /\ d.publishedToQueue /\ d.publishedAt = SomeDate
          /\ \E e \in store : e._id > d._id /\ ~e.publishedToQueue

\* ------------------------------------------------------------------------
\* rabbitMQ.service.ts: the classification of errors.  A string is the
\* sequence of its words; the emoji that opens every message is left out
\* ------------------------------------------------------------------------
\* words of the errors amqplib and the sockets raise, the six the classifier
\* looks for among them
ErrorWords ==
    {"connect", "ECONNREFUSED", "ACCESS_REFUSED", "403", "ETIMEDOUT", "Channel",
     "Queue", "closed"}

RECURSIVE Texts(_)
Texts(n) ==
    IF n = 0 THEN {<<>>}
    ELSE Texts(n - 1) \cup { Append(t, w) : t \in Texts(n - 1), w \in ErrorWords }

\* the errors createConnection rejects with
RawErrors == [name : {"Error"}, message : Texts(MaxWords)]

\* error.toString() of an Error: name, colon, message
ErrorToString(e) == <<e.name \o ":">> \o e.message

\* errorString.includes(word)
Includes(text, word) == \E i \in 1..Len(text) : text[i] = word

ErrorClasses == {"refused", "auth", "timeout", "channel"}

\* the message returned for each class
ClassMessage(class) ==
    CASE class = "refused" ->
            <<"[RABBITMQ]", "Servidor", "RabbitMQ", "nao", "esta", "acessivel.">>
      [] class = "auth" -> <<"[RABBITMQ]", "Erro", "de", "autenticacao.">>
      [] class = "timeout" ->
            <<"[RABBITMQ]", "Timeout", "ao", "conectar", "com", "RabbitMQ.">>
      [] class = "channel" -> <<"[RABBITMQ]", "Erro", "no", "canal", "ou", "fila.">>

\* getRabbitMQErrorMessage(error); the inputs stay below the 200 characters
\* the last branch cuts at
getRabbitMQErrorMessage(error) ==
    LET errorString == ErrorToString(error)
    IN  IF Includes(errorString, "ECONNREFUSED") THEN ClassMessage("refused")
        ELSE IF Includes(errorString, "ACCESS_REFUSED") \/ Includes(errorString, "403")
             THEN ClassMessage("auth")
        ELSE IF Includes(errorString, "ETIMEDOUT") THEN ClassMessage("timeout")
        ELSE IF Includes(errorString, "Channel") \/ Includes(errorString, "Queue")
             THEN ClassMessage("channel")
        ELSE <<"[RABBITMQ]", "Erro", "desconhecido:">> \o errorString

\* the cause a message names
ClassOf(message) ==
    IF \E class \in ErrorClasses : message = ClassMessage(class)
    THEN CHOOSE class \in ErrorClasses : message = ClassMessage(class)
    ELSE "unknown"

InitClassify ==
    /\ InitPipeline
    /\ InitConn
    /\ InitQueue
    /\ InitMongo
    /\ InitProc
    /\ arg \in RawErrors
    /\ res = <<>>

\* the catch of getLazyConnection at the ceiling: the friendly error thrown
LazyConnectionThrows ==
    /\ Len(res) = 0
    /\ res' = <<[name |-> "RabbitMQConnectionError",
                 message |-> getRabbitMQErrorMessage(arg)]>>
    /\ UNCHANGED <<arg, pipeVars, connVars, clientVars>>

\* the catch of publishVideoSuggestion on that error
PublishThrows ==
    /\ Len(res) = 1
    /\ res' = Append(res, [name |-> "RabbitMQError",
                           message |-> getRabbitMQErrorMessage(res[1])])
    /\ UNCHANGED <<arg, pipeVars, connVars, clientVars>>

NextClassify == LazyConnectionThrows \/ PublishThrows

SpecClassify == InitClassify /\ [][NextClassify]_vars

\* C33: the error publishVideoSuggestion throws names the cause the failed
\* connection was classified as.
C33_ClassPreserved ==
    Len(res) = 2 => ClassOf(res[2].message) = ClassOf(res[1].message)

\* ------------------------------------------------------------------------
\* index.ts: the main process with one publisher and one store caller, up
\* to its termination
\* ------------------------------------------------------------------------
\* await connectToWhatsApp() returns (ok) and the SIGINT handler is set, or
\* it throws and the catch of main() logs
MainConnected(ok) ==
    /\ procState = "running"
    /\ mainState = "connecting"
    /\ mainState' = "done"
    /\ sigintHandler' = ok
    /\ UNCHANGED <<procState, pipeVars, connVars, funVars, queueVars, mongoVars>>

\* SIGINT arrives: the handler logs and calls process.exit(0); without a
\* handler the signal ends the process
Sigint ==
    /\ procState = "running"
    /\ procState' = "exited"
    /\ UNCHANGED <<mainState, sigintHandler, pipeVars, connVars, funVars,
                   queueVars, mongoVars>>

\* the process is alive
Running == procState = "running"

NextShutdown ==
    \/ \E ok \in BOOLEAN : MainConnected(ok)
    \/ Sigint
    \/ \E accepted \in BOOLEAN : Running /\ PublishCall(1, accepted)
    \/ \E accepted \in BOOLEAN : Running /\ CreateOk(1, accepted)
    \/ Running /\ CreateFail(1)
    \/ \E accepted \in BOOLEAN : Running /\ Wake(1, accepted)
    \/ \E n \in Connections : Running /\ ConnError(n)
    \/ \E n \in Connections : Running /\ ConnClose(n)
    \/ Running /\ ConnectMongo(1)
    \/ \E ok \in BOOLEAN : Running /\ ProbeDone(1, ok)
    \/ \E ok \in BOOLEAN : Running /\ ConnectDone(1, ok)
    \/ \E ok \in BOOLEAN : Running /\ PingDone(1, ok)
    \/ \E ok \in BOOLEAN : Running /\ IndexDone(1, ok)
    \/ Running /\ CloseDone(1)
    \/ Running /\ SleepDone(1)

SpecShutdown == Init /\ [][NextShutdown]_vars

\* C34: when the main process has terminated, no queue connection is left
\* alive and no store client open.
C34_ConnectionsClosedAtExit ==
    procState = "exited" =>
        /\ \A n \in Connections : connState[n] # "alive"
        /\ \A n \in Clients : clientState[n] # "open"

\* ------------------------------------------------------------------------
\* extractVideoUrl on its own: texts of words and links with their trailing
\* punctuation
\* ------------------------------------------------------------------------
RECURSIVE Puncts(_)
Puncts(n) ==
    IF n = 0 THEN {<<>>}
    ELSE Puncts(n - 1) \cup { Append(p, ch) : p \in Puncts(n - 1), ch \in {".", "!"} }

Tokens ==
    {Word("look")}
        \cup { Link("https://youtu.be/abc123", TRUE, p) : p \in Puncts(MaxPunct) }
        \cup { Link("https://example.org/v", FALSE, p) : p \in Puncts(MaxPunct) }

RECURSIVE Sentences(_)
Sentences(n) ==
    IF n = 0 THEN {<<>>}
    ELSE Sentences(n - 1)
            \cup { Append(t, k) : t \in Sentences(n - 1), k \in Tokens }

InitExtract ==
    /\ InitPipeline
    /\ InitConn
    /\ InitQueue
    /\ InitMongo
    /\ InitProc
    /\ arg \in Sentences(MaxTokens)
    /\ res = <<>>

\* extractVideoUrl(text) is called
Extract ==
    /\ Len(res) = 0
    /\ res' = <<extractVideoUrl(arg)>>
    /\ UNCHANGED <<arg, pipeVars, connVars, clientVars>>

NextExtract == Extract

SpecExtract == InitExtract /\ [][NextExtract]_vars

\* C35: the URL returned carries none of the punctuation that followed the
\* link, and null is returned only for a text without a link.
C35_NoTrailingPunctuation ==
    Len(res) = 1 =>
        /\ res[1] # Null => res[1].tail = <<>>
        /\ res[1] = Null <=> \A i \in 1..Len(arg) : ~arg[i].url

\* ------------------------------------------------------------------------
\* Properties of the health report
\* ------------------------------------------------------------------------
\* getConnectionHealth(): isHealthy and status, from getConnectionStats()
getConnectionHealth(m) ==
    LET isHealthy == m.reconnectAttempts = 0 /\ ~m.isConnecting
    IN  [isHealthy |-> isHealthy,
         status |-> IF isHealthy THEN "connected"
                    ELSE IF m.isConnecting THEN "reconnecting" ELSE "disconnected"]

\* C38: whenever getConnectionHealth reports isHealthy (status connected) a
\* socket is open.
C38_HealthyOnlyWhileOpen ==
    getConnectionHealth(Manager).isHealthy => open > 0

\* ------------------------------------------------------------------------
\* Properties of the isConnecting flag
\* ------------------------------------------------------------------------
\* C39: while isConnecting is true a reconnection timer is pending or a
\* connectToWhatsApp call is running, and isConnecting, once true, becomes
\* false again.
C39_FlagAlwaysReleased ==
    /\ [](isConnecting => Busy)
    /\ (isConnecting ~> ~isConnecting)

\* the flag is up with nothing but the attempt of a timer behind it, and the
\* retries are used up
C39_Witness ==
    /\ isConnecting
    /\ pendingTimers = {}
    /\ InFlight = 1
    /\ reconnectAttempts >= maxRetries

\* ------------------------------------------------------------------------
\* Properties of the dedup key around a failed write
\* ------------------------------------------------------------------------
\* handler h comes to await saveVideoSuggestion for a message in this step
StartsSave(h) == pc'[h] = "save" /\ (pc[h] # "save" \/ idx'[h] # idx[h])

\* C40: when the write of a message is started its dedup key is in the
\* cache; a write that throws leaves the cache and the store as they were;
\* and a delivery of a message whose key is in the cache is skipped, record
\* or no record.
C40_KeyKeptAfterFailedWrite ==
    [][/\ \A h \in Handlers :
             /\ StartsSave(h) =>
                   processedMessages'[MessageKey(batch'[h][idx'[h]])] # Never
             /\ (Leaves(h, "save") /\ savedDoc'[h] = Null) =>
                   /\ processedMessages' = processedMessages
                   /\ store' = store
       /\ deliveries' > deliveries =>
             \A h \in Handlers :
                 StartsSave(h) =>
                     processedMessages[MessageKey(batch'[h][idx'[h]])] = Never]_vars

\* the write of M1 failed, the failure reaction was sent, no record exists,
\* and the second delivery of M1 was skipped
C40_Witness ==
    /\ seen[K1].passes = 1
    /\ seen[K1].verdict = "skipped-young"
    /\ reactions[K1].fail = 1
    /\ DocsOf(store, M1.id) = {}
    /\ processedMessages[K1] # Never

====
